---- MODULE Spec2Model ----
(***************************************************************************)
(* AGHI dashboard: the DashboardManager navigation state machine           *)
(* (frontend/js/dashboard.js) on top of the AGHIAPI response cache          *)
(* (api.js, kept here as src/unnamed/part_000).                            *)
(*                                                                         *)
(* JavaScript runs one macrotask (a user event, a timer, the arrival of a  *)
(* network response) to completion, then drains the microtask queue.  One  *)
(* action of this model is one macrotask together with the microtasks it   *)
(* makes runnable: the states TLC sees are exactly the points where        *)
(* another handler can run.  An async function call is a task record; its  *)
(* pc names the await it is suspended at.                                  *)
(***************************************************************************)
EXTENDS Integers, Sequences, FiniteSets, TLC

\* ---- bounds of the model ------------------------------------------------
MaxFail == 1           \* failed network requests (Spec, SpecNav, SpecCache)
MaxHang == 1           \* requests that are never answered (SpecHang)
MaxEvents == 2         \* user events in SpecNav and SpecRace
MaxRefreshEvents == 2  \* user events and timer firings in SpecRefresh
MaxPersonaEvents == 3  \* user events in SpecPersona
MaxSearchEvents == 3   \* user events in SpecSearch
MaxReloads == 1        \* drill-downs in SpecReload
MaxReloadFail == 3     \* failed network requests in SpecReload
MaxCalls == 2          \* direct gateway calls in SpecCache
MaxTicks == 2          \* clock advances in SpecCache
MaxKeyCalls == 2       \* gateway calls in SpecKey
NameLen == 5           \* letters of a state or district name
NStates == 12          \* records of the state dataset
NDistricts == 20       \* records of the district dataset
AlertLen == 2          \* characters of the alert message in SpecAlerts
MaxAlertEvents == 1    \* refreshes in SpecAlerts
MaxChatEvents == 2     \* chat messages in SpecChat
MaxRankEvents == 2     \* user events in SpecRank
MaxTrendEvents == 3    \* user events in SpecTrend
MaxMapEvents == 2      \* user events in SpecMap
MaxLiveEvents == 1     \* user events in SpecLive

\* ---- program constants --------------------------------------------------
cacheDuration == 300000          \* 5 * 60 * 1000 ms
Regions == {"National", "Maharashtra", "Bihar"}
PilotRegions == {"National", "Maharashtra"}   \* the regions of #stateFilter
Levels == {"state", "district"}
Personas == {"national", "state", "ops"}
PanelNames == {"overview", "map", "rankings", "trends", "alerts", "ops"}
Null == "null"
StateCap == 5                    \* .slice(0, 5) of the matching states
DistrictCap == 8                 \* .slice(0, 8) of the matching districts

VARIABLES
    currentState,      \* DashboardManager.currentState
    currentMapLevel,   \* DashboardManager.currentMapLevel
    persona,           \* body[data-active-persona]
    geoData,           \* DashboardManager.geoData: level -> source of the bundle
    cache,             \* AGHIAPI.cache: key -> [data, timestamp]
    now,               \* Date.now()
    net,               \* network requests in flight
    tasks,             \* async calls since the page was last idle: id -> task record
    panels,            \* what each panel mount shows
    breadcrumb,        \* #mapBreadcrumb
    districtOptions,   \* state whose districts fill #trendDistrict
    trendDistrict,     \* #trendDistrict: its value ("": 'All Districts') and
                       \* whether it is displayed
    trendMetric,       \* #trendMetric.value (Null: the option the markup selects)
    server,            \* what the backend holds: the message of its alert,
                       \* the panels whose dataset has zero records
    alertMsg,          \* innerHTML of #msg-0, the message element of the alert feed
    mapSearch,         \* #mapSearch.value, a sequence of characters
    suggestions,       \* #map-search-suggestions: the list on the page, if any
    card,              \* state whose district the detail card shows (Null: none)
    listeners,         \* how many times setupEventListeners has bound the controls
    timers,            \* setInterval timers registered by startAutoRefresh
    gen,               \* refreshDashboard calls begun so far (cache generations)
    geoFetches,        \* level -> loadMap calls that did geometry I/O
    lastMap,           \* level and filter of the loadMap call that last had data and geometry
    nRoots,            \* top-level calls (constructor, handlers) made so far
    nEvents, nFail, nCalls, nTicks,
    nAnswers           \* responses that have arrived in SpecLive

vars == <<currentState, currentMapLevel, persona, geoData, cache, now, net,
          tasks, panels, breadcrumb, districtOptions, trendDistrict, trendMetric,
          server, alertMsg,
          mapSearch, suggestions, card, listeners,
          timers, gen, geoFetches, lastMap, nRoots, nEvents, nFail, nCalls, nTicks,
          nAnswers>>

\* ---- the state as one value, so that handlers compose --------------------
St ==
    [currentState |-> currentState, currentMapLevel |-> currentMapLevel,
     persona |-> persona, geoData |-> geoData, cache |-> cache, now |-> now,
     net |-> net, tasks |-> tasks, panels |-> panels, breadcrumb |-> breadcrumb,
     districtOptions |-> districtOptions, trendDistrict |-> trendDistrict,
     trendMetric |-> trendMetric,
     server |-> server, alertMsg |-> alertMsg,
     mapSearch |-> mapSearch, suggestions |-> suggestions, card |-> card,
     listeners |-> listeners,
     timers |-> timers, gen |-> gen, geoFetches |-> geoFetches,
     lastMap |-> lastMap, nRoots |-> nRoots, ready |-> <<>>]

Commit(s) ==
    /\ currentState' = s.currentState
    /\ currentMapLevel' = s.currentMapLevel
    /\ persona' = s.persona
    /\ geoData' = s.geoData
    /\ cache' = s.cache
    /\ now' = s.now
    /\ net' = s.net
    /\ tasks' = s.tasks
    /\ panels' = s.panels
    /\ breadcrumb' = s.breadcrumb
    /\ districtOptions' = s.districtOptions
    /\ trendDistrict' = s.trendDistrict
    /\ trendMetric' = s.trendMetric
    /\ server' = s.server
    /\ alertMsg' = s.alertMsg
    /\ mapSearch' = s.mapSearch
    /\ suggestions' = s.suggestions
    /\ card' = s.card
    /\ listeners' = s.listeners
    /\ timers' = s.timers
    /\ gen' = s.gen
    /\ geoFetches' = s.geoFetches
    /\ lastMap' = s.lastMap
    /\ nRoots' = s.nRoots

\* ---- task records ---------------------------------------------------------
\* A task is one call of an async function.  Its id is Stride * root + role:
\* root numbers the top-level call it descends from, role is its place in the
\* call tree of that root (each place occurs once per root).
Stride == 32
\* the places, each with the line of dashboard.js that makes the call
Role ==
    [Refresh |-> 1,           \* line 1092-1097
     Init |-> 2,              \* line 1095
     Overview |-> 3,          \* line 16
     InitMap |-> 4,           \* line 17
     InitRankings |-> 5,      \* line 18
     InitTrends |-> 6,        \* line 19
     InitAlerts |-> 7,        \* line 20
     InitOps |-> 8,           \* line 21
     Fill |-> 9,              \* line 82
     Persona |-> 10,          \* line 116
     PersonaMap |-> 11,       \* line 453-462
     PersonaTrends |-> 12,    \* line 469
     PersonaOps |-> 13,       \* line 471
     Hsc |-> 14,              \* line 722-724
     Populate |-> 15,         \* line 744
     HscMap |-> 16,           \* line 778
     HscTrends |-> 17,        \* line 779
     HscRankings |-> 18,      \* line 780
     HscOps |-> 19,           \* line 781
     Call |-> 20,             \* api.js line 11
     Search |-> 21,           \* line 1021
     Card |-> 22,             \* line 1220
     Chat |-> 23,             \* lines 1042, 1408
     Briefing |-> 24,         \* line 1045
     Rankings |-> 25,         \* line 1015
     MapClick |-> 26]         \* line 895

Tid(root, role) == Stride * root + role
RootOf(tid) == tid \div Stride
Sib(tid, role) == Tid(RootOf(tid), role)

\* a call of a gateway method: the method and its arguments ("" and <<>>
\* where the method has no such argument, or it is null)
GatewayCallOf(m, level, limit, state, district) ==
    [m |-> m, level |-> level, limit |-> limit, state |-> state, district |-> district]

\* kind: the async function; pc: the await it is suspended at; parent: the
\* task awaiting it (0: nobody); wait: children a Promise.all / await still
\* waits for; res: its promise.  The other fields record what the call saw.
NewTask(kind, parent, arg) ==
    [kind |-> kind, pc |-> "start", parent |-> parent,
     arg |-> arg, level |-> "-", wait |-> 0, res |-> "pending",
     fetchOk |-> FALSE, geoOk |-> FALSE, rendered |-> FALSE, notice |-> FALSE,
     key |-> <<>>, callGen |-> 0, dataGen |-> 0, callNow |-> 0, dataTs |-> 0,
     hit |-> FALSE, sent |-> FALSE, hadEntry |-> FALSE, entryTs |-> 0,
     inflight |-> FALSE, doneNow |-> 0, hung |-> FALSE,
     cs0 |-> "-", lvl0 |-> "-", bc0 |-> "-", persona0 |-> "-",
     quiet |-> FALSE, busy |-> {}, query |-> <<>>, typed |-> 0,
     geoLocal |-> "-", geoRemote |-> "-", stored |-> "-",
     call |-> GatewayCallOf("-", "", "", <<>>, <<>>), started |-> {}]

AddTask(s, tid, t) ==
    [s EXCEPT !.tasks = [i \in DOMAIN @ \cup {tid} |-> IF i = tid THEN t ELSE @[i]]]

\* a microtask: task tid resumes with the outcome of what it awaited
Enqueue(s, tid, ok, data, ts) ==
    [s EXCEPT !.ready = Append(@, [task |-> tid, ok |-> ok, data |-> data, ts |-> ts])]

\* ---- AGHIAPI (src/unnamed/part_000) ---------------------------------------
\* A string is a sequence of tokens: words, and the delimiters of URLs and
\* of JSON one by one, so that two sequences are equal exactly when the
\* strings they spell are.  A parameter value of the navigation model is one
\* word; an absent (null, '') parameter is "".
RECURSIVE Flatten(_)
Flatten(ss) == IF ss = <<>> THEN <<>> ELSE Head(ss) \o Flatten(Tail(ss))

\* a variant that leaves every character as it is
Unencoded(w) == w

\* encodeURIComponent: the reserved characters become %XX
EncodeURIComponent(w) ==
    Flatten([i \in DOMAIN w |->
                CASE w[i] = "&" -> <<"%", "26">>
                  [] w[i] = "=" -> <<"%", "3D">>
                  [] w[i] = "?" -> <<"%", "3F">>
                  [] w[i] = "%" -> <<"%", "25">>
                  [] OTHER -> <<w[i]>>])

\* JSON.stringify of a string: quoted, with quotes and backslashes escaped
JsonString(w) ==
    <<"\"">>
    \o Flatten([i \in DOMAIN w |->
                  CASE w[i] = "\"" -> <<"\\", "\"">>
                    [] w[i] = "\\" -> <<"\\", "\\">>
                    [] OTHER -> <<w[i]>>])
    \o <<"\"">>

\* JSON.stringify of an object whose values are strings: obj is the
\* sequence of its <<name, value>> properties in insertion order
RECURSIVE JsonMembers(_)
JsonMembers(obj) ==
    IF obj = <<>> THEN <<>>
    ELSE JsonString(<<Head(obj)[1]>>) \o <<":">> \o JsonString(Head(obj)[2])
         \o (IF Tail(obj) = <<>> THEN <<>> ELSE <<",">> \o JsonMembers(Tail(obj)))
Stringify(obj) == <<"{">> \o JsonMembers(obj) \o <<"}">>

\* options = {} (line 11)
NoOptions == <<>>
\* { method: 'POST', body: JSON.stringify({ [name]: value }) }
PostOptions(name, value) ==
    << <<"method", <<"POST">> >>, <<"body", Stringify(<< <<name, value>> >>)>> >>

API_BASE_URL == <<"http://localhost:5000/api">>
OverviewUrl == <<"/overview">>
MapDataUrl(level) == <<"/map-data", "?", "level", "=", level>>
TrendsUrlOf(state, district) ==
    <<"/trends", "?", "state", "=">> \o EncodeURIComponent(state)
        \o (IF district # <<>>
            THEN <<"&", "district", "=">> \o EncodeURIComponent(district) ELSE <<>>)
TrendsUrl(state, district) ==
    TrendsUrlOf(<<state>>, IF district = "" THEN <<>> ELSE <<district>>)
RankingsUrlOf(level, limit, state) ==
    <<"/rankings", "?", "level", "=", level, "&", "limit", "=", limit>>
        \o (IF state # <<>> THEN <<"&", "state", "=">> \o EncodeURIComponent(state)
            ELSE <<>>)
RankingsUrl(level, limit, state) ==
    RankingsUrlOf(level, limit, IF state = "" THEN <<>> ELSE <<state>>)
AnomaliesUrl == <<"/anomalies">>
OperationsUrl(state) ==
    <<"/operations", "?", "state", "=">> \o EncodeURIComponent(<<state>>)

\* const url = `${API_BASE_URL}${endpoint}`;
\* const cacheKey = url + JSON.stringify(options)
CacheKey(url, options) == API_BASE_URL \o url \o Stringify(options)

\* cached && Date.now() - cached.timestamp < this.cacheDuration
CacheFreshLe(c, key, t) == key \in DOMAIN c /\ t - c[key].timestamp <= cacheDuration
CacheFresh(c, key, t) == key \in DOMAIN c /\ t - c[key].timestamp < cacheDuration

\* this.cache.set(cacheKey, {data, timestamp: Date.now()})
CacheSet(c, key, data, t) ==
    [k \in DOMAIN c \cup {key} |->
        IF k = key THEN [data |-> data, timestamp |-> t] ELSE c[k]]

InFlight(s, key) == \E r \in s.net : r.kind = "api" /\ r.key = key

\* a variant that joins a request already in flight for the same key
IssueFetchDedup(s, tid, key) ==
    IF InFlight(s, key)
    THEN [s EXCEPT !.net = {IF r.kind = "api" /\ r.key = key
                            THEN [r EXCEPT !.waiters = @ \cup {tid}] ELSE r : r \in @}]
    ELSE [s EXCEPT !.net = @ \cup {[id |-> tid, kind |-> "api", key |-> key,
                                    gen |-> s.gen, waiters |-> {tid}]},
                   !.tasks[tid].sent = TRUE]

\* const response = await fetch(url, {...}): every miss puts its own request
\* on the network; the response will carry the server's data as of this call
IssueFetch(s, tid, key) ==
    [s EXCEPT !.net = @ \cup {[id |-> tid, kind |-> "api", key |-> key,
                               gen |-> s.gen, waiters |-> {tid}]},
              !.tasks[tid].sent = TRUE]

\* fetchAPI lines 16-28, cacheKey being key: the cache test, then the request
FetchAPIKeyed(s, tid, key) ==
    LET had == key \in DOMAIN s.cache
        s1 == [s EXCEPT !.tasks[tid] =
                 [@ EXCEPT !.key = key, !.callGen = s.gen, !.callNow = s.now,
                           !.hadEntry = had,
                           !.entryTs = IF had THEN s.cache[key].timestamp ELSE 0,
                           !.inflight = InFlight(s, key)]]
    IN  IF CacheFresh(s.cache, key, s.now)
        THEN Enqueue([s1 EXCEPT !.tasks[tid].hit = TRUE], tid, TRUE,
                     s.cache[key].data, s.cache[key].timestamp)
        ELSE IssueFetch(s1, tid, key)

\* fetchAPI(endpoint, options) called by task tid, up to its first await
FetchAPI(s, tid, url, options) == FetchAPIKeyed(s, tid, CacheKey(url, options))

RECURSIVE EnqueueAll(_, _, _, _, _)
EnqueueAll(s, ws, ok, data, ts) ==
    IF ws = {} THEN s
    ELSE LET w == CHOOSE x \in ws : \A y \in ws : x <= y
         IN EnqueueAll(Enqueue(s, w, ok, data, ts), ws \ {w}, ok, data, ts)

\* a variant that also stores the outcome of a failed request
FetchAPIResponseStoresFailure(s, r, ok) ==
    LET s1 == [s EXCEPT !.net = @ \ {r},
                        !.cache = CacheSet(@, r.key, IF ok THEN r.gen ELSE 0, s.now)]
    IN  IF ok THEN EnqueueAll(s1, r.waiters, TRUE, r.gen, s.now)
        ELSE EnqueueAll(s1, r.waiters, FALSE, 0, 0)

\* the rest of fetchAPI, run when the response r arrives: a success is stored
\* with the time of arrival and returned; a failure is rethrown to the caller
FetchAPIResponse(s, r, ok) ==
    LET s1 == [s EXCEPT !.net = @ \ {r}]
    IN  IF ok
        THEN EnqueueAll([s1 EXCEPT !.cache = CacheSet(@, r.key, r.gen, s.now)],
                        r.waiters, TRUE, r.gen, s.now)
        ELSE EnqueueAll(s1, r.waiters, FALSE, 0, 0)

\* clearCache(): this.cache.clear()
ClearCache(s) == [s EXCEPT !.cache = <<>>]

\* ---- DashboardManager (src/frontend/js/dashboard.js) ----------------------
\* The promise of task tid settles; whoever awaits it (alone or in a
\* Promise.all) is resumed when the last awaited child resolves, or at once
\* when a child rejects.
Finish(s, tid, res) ==
    LET p == s.tasks[tid].parent
        s1 == [s EXCEPT !.tasks[tid].res = res, !.tasks[tid].pc = "done",
                        !.tasks[tid].doneNow = s.now]
    IN  IF p = 0 \/ s1.tasks[p].wait = 0 THEN s1
        ELSE IF res = "rejected"
             THEN Enqueue([s1 EXCEPT !.tasks[p].wait = 0], p, FALSE, 0, 0)
        ELSE IF s1.tasks[p].wait = 1
             THEN Enqueue([s1 EXCEPT !.tasks[p].wait = 0], p, TRUE, 0, 0)
        ELSE [s1 EXCEPT !.tasks[p].wait = @ - 1]

\* content: "data" - the records of the dataset; "placeholder" - an explicit
\* no-data element; "bare" - the mount as a render of zero records leaves it
NoPanel == [shown |-> FALSE, level |-> "-", region |-> "-", gen |-> 0, content |-> "-"]
Shown(level, region, g) ==
    [shown |-> TRUE, level |-> level, region |-> region, gen |-> g, content |-> "data"]

\* what a mount holds after the render of a dataset: the records, or ifEmpty
\* when the server has zero records for the panel
Render(s, panel, rec, ifEmpty) ==
    IF panel \in s.server.empty THEN [rec EXCEPT !.content = ifEmpty] ELSE rec

\* what a resumed task got from its fetchAPI call
GotData(s, tid, m) ==
    [s EXCEPT !.tasks[tid].fetchOk = TRUE, !.tasks[tid].dataGen = m.data,
              !.tasks[tid].dataTs = m.ts]

\* -- loadMap (the last definition, lines 791-914) --
LoadMapStart(s, tid, parent, stateFilter) ==
    LET level == IF stateFilter # Null THEN "district" ELSE s.currentMapLevel
        s1 == AddTask(s, tid, [NewTask("loadMap", parent, stateFilter)
                                 EXCEPT !.level = level, !.pc = "data"])
    IN  FetchAPI(s1, tid, MapDataUrl(level), NoOptions)

\* a variant that drops a result the navigation state has moved away from
LoadMapRenderIfCurrent(s, tid) ==
    LET t == s.tasks[tid]
    IN  IF t.arg = (IF s.currentState = "National" THEN Null ELSE s.currentState)
        THEN [s EXCEPT !.panels.map =
                           Render(s, "map", Shown(t.level, t.arg, t.dataGen), "bare"),
                       !.tasks[tid].rendered = TRUE]
        ELSE s

\* lines 823-908: Plotly.newPlot('indiaMap', ...) with the call's own level
\* and filter, whatever currentState is by now; with zero records the trace
\* has no locations and the base map is drawn alone
LoadMapRender(s, tid) ==
    LET t == s.tasks[tid]
    IN  [s EXCEPT !.panels.map =
                      Render(s, "map", Shown(t.level, t.arg, t.dataGen), "bare"),
                  !.tasks[tid].rendered = TRUE]

\* the call has its data and a geometry bundle: render and return
LoadMapDone(s, tid) ==
    LET t == s.tasks[tid]
    IN  Finish(LoadMapRender([s EXCEPT !.tasks[tid].geoOk = TRUE,
                                       !.lastMap = [set |-> TRUE, level |-> t.level,
                                                    region |-> t.arg]], tid),
               tid, "resolved")

\* lines 910-913: catch (error) { console.error; this.showError(...) }
LoadMapCatch(s, tid) == Finish([s EXCEPT !.tasks[tid].notice = TRUE], tid, "resolved")

GeoRequest(s, tid, kind) ==
    [s EXCEPT !.net = @ \cup {[id |-> tid, kind |-> kind,
                               key |-> <<"geojson", s.tasks[tid].level>>,
                               gen |-> s.gen, waiters |-> {tid}]}]

\* lines 794-816: resumed with the map data
LoadMapData(s, tid, m) ==
    IF ~m.ok THEN LoadMapCatch(s, tid)
    ELSE LET s1 == GotData(s, tid, m)
             level == s.tasks[tid].level
         IN  IF s1.geoData[level] = Null
             THEN GeoRequest([s1 EXCEPT !.tasks[tid].pc = "geoLocal",
                                        !.tasks[tid].geoLocal = "pending",
                                        !.geoFetches[level] = @ + 1], tid, "geoLocal")
             ELSE LoadMapDone(s1, tid)

\* lines 807-815: local source first, remote as the fallback.  geoLocal and
\* geoRemote record the outcome of each attempt ("failed": rejected, a
\* non-success status or an unreadable body), stored the source whose body
\* the call put into this.geoData[level]
LoadMapGeoLocal(s, tid, m) ==
    IF m.ok
    THEN LoadMapDone([s EXCEPT !.geoData[s.tasks[tid].level] = "local",
                               !.tasks[tid].geoLocal = "ok",
                               !.tasks[tid].stored = "local"], tid)
    ELSE GeoRequest([s EXCEPT !.tasks[tid].pc = "geoRemote",
                              !.tasks[tid].geoLocal = "failed",
                              !.tasks[tid].geoRemote = "pending"], tid, "geoRemote")

\* lines 813-814: the body of the remote response is parsed and stored
\* without a look at response.ok; okStatus tells whether the status was 2xx
LoadMapGeoRemoteBody(s, tid, okStatus) ==
    LoadMapDone([s EXCEPT !.geoData[s.tasks[tid].level] =
                              IF okStatus THEN "remote" ELSE "remoteError",
                          !.tasks[tid].geoRemote = IF okStatus THEN "ok" ELSE "failed",
                          !.tasks[tid].stored = "remote"], tid)

LoadMapGeoRemote(s, tid, m) ==
    IF m.ok
    THEN LoadMapGeoRemoteBody(s, tid, TRUE)
    ELSE LoadMapCatch([s EXCEPT !.tasks[tid].geoRemote = "failed"], tid)

\* -- loadRankings (lines 484-531) --
\* a variant that never scopes the request to the current state
LoadRankingsStartUnscoped(s, tid, parent) ==
    LET s1 == AddTask(s, tid, [NewTask("loadRankings", parent, "")
                                 EXCEPT !.level = s.currentMapLevel, !.pc = "data"])
    IN  FetchAPI(s1, tid, RankingsUrl(s.currentMapLevel, "10", ""), NoOptions)

LoadRankingsStart(s, tid, parent) ==
    LET stateParam == IF s.currentState = "National" THEN "" ELSE s.currentState
        s1 == AddTask(s, tid, [NewTask("loadRankings", parent, stateParam)
                                 EXCEPT !.level = s.currentMapLevel, !.pc = "data"])
    IN  FetchAPI(s1, tid, RankingsUrl(s.currentMapLevel, "10", stateParam), NoOptions)

\* a variant whose catch rethrows
LoadRankingsRethrow(s, tid) == Finish(s, tid, "rejected")

\* lines 528-530: catch (error) { console.error(...) }
LoadRankingsCatch(s, tid) == Finish(s, tid, "resolved")

\* lines 495-527: container.innerHTML = '', then one item per record
LoadRankingsRender(s, tid, m) ==
    LET t == s.tasks[tid]
    IN  [s EXCEPT !.panels.rankings =
                      Render(s, "rankings", Shown(t.level, t.arg, m.data), "bare"),
                  !.tasks[tid].rendered = TRUE]

LoadRankingsData(s, tid, m) ==
    IF ~m.ok THEN LoadRankingsCatch(s, tid)
    ELSE Finish(LoadRankingsRender(GotData(s, tid, m), tid, m), tid, "resolved")

\* -- loadTrends (lines 570-634) --
\* lines 574-586: #trendDistrict is displayed for a state and hidden for
\* 'National'; its value, if any, is the district of the request
LoadTrendsStart(s, tid, parent) ==
    LET s1 == AddTask([s EXCEPT !.trendDistrict.display = s.currentState # "National"],
                      tid, [NewTask("loadTrends", parent, s.currentState)
                              EXCEPT !.pc = "data"])
    IN  FetchAPI(s1, tid, TrendsUrl(s.currentState, s.trendDistrict.value), NoOptions)

\* lines 588-630: '<div class="no-data">No data</div>' in every chart mount
\* when data.length === 0, the charts otherwise
LoadTrendsRender(s, tid, m) ==
    [s EXCEPT !.panels.trends =
                  Render(s, "trends", Shown("-", s.tasks[tid].arg, m.data), "placeholder"),
              !.tasks[tid].rendered = TRUE]

LoadTrendsData(s, tid, m) ==
    IF ~m.ok THEN Finish(s, tid, "resolved")
    ELSE Finish(LoadTrendsRender(GotData(s, tid, m), tid, m), tid, "resolved")

\* -- loadAlerts (lines 677-710) --
LoadAlertsStart(s, tid, parent) ==
    LET s1 == AddTask(s, tid, [NewTask("loadAlerts", parent, "") EXCEPT !.pc = "data"])
    IN  FetchAPI(s1, tid, AnomaliesUrl, NoOptions)

\* typeWriter(text, 'msg-0', i) (lines 712-720) of the loadAlerts call tid,
\* i being the characters the call has typed: the element that has the id
\* now gets the next character, and a 20 ms timer is set for the one after
TypeWriter(s, tid) ==
    LET text == s.server.alertText
        i == s.tasks[tid].typed
    IN  IF i < Len(text) /\ s.panels.alerts.content = "data"
        THEN [s EXCEPT !.alertMsg = Append(@, text[i + 1]),
                       !.tasks[tid].typed = i + 1,
                       !.net = @ \cup {[id |-> tid, kind |-> "timer",
                                        key |-> <<"setTimeout", "20">>,
                                        gen |-> s.gen, waiters |-> {tid}]}]
        ELSE s

\* lines 683-706: the list is emptied; 'No priority alerts detected.' for
\* zero priorities, else a new item with an empty #msg-0 whose message is
\* typed by typeWriter
LoadAlertsData(s, tid, m) ==
    IF ~m.ok THEN Finish(s, tid, "resolved")
    ELSE LET s1 == [GotData(s, tid, m) EXCEPT
                       !.panels.alerts =
                           Render(s, "alerts", Shown("-", "", m.data), "placeholder"),
                       !.alertMsg = <<>>,
                       !.tasks[tid].rendered = TRUE]
         IN  Finish(TypeWriter(s1, tid), tid, "resolved")

\* -- loadCriticalOps (lines 915-970) --
LoadCriticalOpsStart(s, tid, parent) ==
    LET s1 == AddTask(s, tid, [NewTask("loadCriticalOps", parent, s.currentState)
                                 EXCEPT !.pc = "data"])
    IN  FetchAPI(s1, tid, OperationsUrl(s.currentState), NoOptions)

LoadCriticalOpsData(s, tid, m) ==
    IF ~m.ok THEN Finish(s, tid, "resolved")
    ELSE Finish([GotData(s, tid, m) EXCEPT
                    !.panels.ops = Shown("-", s.tasks[tid].arg, m.data),
                    !.tasks[tid].rendered = TRUE], tid, "resolved")

\* -- populateDistrictDropdown (the last definition, lines 636-658) --
\* called with currentState # 'National'; #trendDistrict exists
PopulateDistrictDropdownStart(s, tid, parent) ==
    LET s1 == AddTask(s, tid, [NewTask("populateDistrictDropdown", parent, s.currentState)
                                 EXCEPT !.pc = "data"])
    IN  FetchAPI(s1, tid, MapDataUrl("district"), NoOptions)

\* a variant whose catch rethrows
PopulateDistrictDropdownRethrow(s, tid) == Finish(s, tid, "rejected")

\* lines 655-657: catch (error) { console.error(...) }
PopulateDistrictDropdownCatch(s, tid) == Finish(s, tid, "resolved")

\* the districts the server has for a state
DistrictsOf(state) ==
    CASE state = "Maharashtra" -> {"Pune"}
      [] state = "Bihar" -> {"Patna"}
      [] OTHER -> {}

\* resumed: the districts are filtered by this.currentState as it is now;
\* the options are written anew (line 646), 'All Districts' being selected
PopulateDistrictDropdownData(s, tid, m) ==
    IF ~m.ok THEN PopulateDistrictDropdownCatch(s, tid)
    ELSE Finish([GotData(s, tid, m) EXCEPT !.districtOptions = s.currentState,
                                           !.trendDistrict.value = "",
                                           !.tasks[tid].rendered = TRUE],
                tid, "resolved")

\* -- handleStateChange (the last definition, lines 726-789) --
LevelFor(region) == IF region = "National" THEN "state" ELSE "district"
BreadcrumbFor(region) == IF region = "National" THEN "India" ELSE "India / " \o region

\* a variant that leaves the operations panel out of the reload
HandleStateChangeReloadNoOps(s, tid) ==
    LET newState == s.tasks[tid].arg
        stateToLoad == IF newState = "National" THEN Null ELSE newState
        s1 == [s EXCEPT !.breadcrumb = BreadcrumbFor(newState),
                        !.currentMapLevel = LevelFor(newState),
                        !.tasks[tid].pc = "reload", !.tasks[tid].wait = 3]
        s2 == LoadMapStart(s1, Sib(tid, Role.HscMap), tid, stateToLoad)
        s3 == LoadTrendsStart(s2, Sib(tid, Role.HscTrends), tid)
    IN  LoadRankingsStart(s3, Sib(tid, Role.HscRankings), tid)

\* a variant that leaves the breadcrumb as it was
HandleStateChangeReloadStaleCrumb(s, tid) ==
    LET newState == s.tasks[tid].arg
        stateToLoad == IF newState = "National" THEN Null ELSE newState
        s1 == [s EXCEPT !.currentMapLevel = LevelFor(newState),
                        !.tasks[tid].pc = "reload", !.tasks[tid].wait = 4]
        s2 == LoadMapStart(s1, Sib(tid, Role.HscMap), tid, stateToLoad)
        s3 == LoadTrendsStart(s2, Sib(tid, Role.HscTrends), tid)
        s4 == LoadRankingsStart(s3, Sib(tid, Role.HscRankings), tid)
    IN  LoadCriticalOpsStart(s4, Sib(tid, Role.HscOps), tid)

\* lines 747-782: breadcrumb and currentMapLevel from the call's own newState,
\* then the four panel loads of Promise.all, which the call awaits
HandleStateChangeReload(s, tid) ==
    LET newState == s.tasks[tid].arg
        stateToLoad == IF newState = "National" THEN Null ELSE newState
        s1 == [s EXCEPT !.breadcrumb = BreadcrumbFor(newState),
                        !.currentMapLevel = LevelFor(newState),
                        !.tasks[tid].pc = "reload", !.tasks[tid].wait = 4]
        s2 == LoadMapStart(s1, Sib(tid, Role.HscMap), tid, stateToLoad)
        s3 == LoadTrendsStart(s2, Sib(tid, Role.HscTrends), tid)
        s4 == LoadRankingsStart(s3, Sib(tid, Role.HscRankings), tid)
    IN  LoadCriticalOpsStart(s4, Sib(tid, Role.HscOps), tid)

PendingOf(s, kind) ==
    {i \in DOMAIN s.tasks : s.tasks[i].kind = kind /\ s.tasks[i].res = "pending"}

\* lines 726-745: currentState is written, then the district list is awaited
\* (for a state) before anything else is written
HandleStateChangeStart(s, tid, parent, newState) ==
    LET s1 == AddTask(s, tid, [NewTask("handleStateChange", parent, newState)
                                 EXCEPT !.busy = PendingOf(s, "handleStateChange"),
                                        !.cs0 = s.currentState,
                                        !.lvl0 = s.currentMapLevel,
                                        !.bc0 = s.breadcrumb])
        s2 == [s1 EXCEPT !.currentState = newState]
    IN  IF newState # "National"
        THEN PopulateDistrictDropdownStart(
                 [s2 EXCEPT !.tasks[tid].pc = "populate", !.tasks[tid].wait = 1],
                 Sib(tid, Role.Populate), tid)
        ELSE HandleStateChangeReload(s2, tid)

\* a variant that goes on waiting once the loads have settled
HandleStateChangeDoneWaits(s, tid, m) == [s EXCEPT !.tasks[tid].wait = 1]

\* lines 784-788, or the rejection of Promise.all passed on to the caller
HandleStateChangeDone(s, tid, m) ==
    Finish(s, tid, IF m.ok THEN "resolved" ELSE "rejected")

\* drillDownToState(stateName) { await this.handleStateChange(stateName) }
DrillDownToState(s, tid, parent, stateName) ==
    HandleStateChangeStart(s, tid, parent, stateName)

\* -- setPersona (the last definition, lines 440-473) --
\* a task about to await drillDownToState
AwaitDrill(s, tid) == [s EXCEPT !.tasks[tid].pc = "drill", !.tasks[tid].wait = 1]

\* a variant that never leaves the current region
SetPersonaNationalNoDrill(s, tid) ==
    Finish(LoadMapStart(s, Sib(tid, Role.PersonaMap), 0, Null), tid, "resolved")

\* lines 448-455: persona === 'national'
SetPersonaNational(s, tid) ==
    IF s.currentState # "National"
    THEN DrillDownToState(AwaitDrill(s, tid), Sib(tid, Role.Hsc), tid, "National")
    ELSE Finish(LoadMapStart(s, Sib(tid, Role.PersonaMap), 0, Null), tid, "resolved")

\* a variant that redraws the whole country
SetPersonaStateUnfiltered(s, tid) ==
    IF s.currentState = "National"
    THEN DrillDownToState(AwaitDrill(s, tid), Sib(tid, Role.Hsc), tid, "Maharashtra")
    ELSE Finish(LoadMapStart(s, Sib(tid, Role.PersonaMap), 0, Null), tid, "resolved")

\* lines 456-464: persona === 'state'
SetPersonaState(s, tid) ==
    IF s.currentState = "National"
    THEN DrillDownToState(AwaitDrill(s, tid), Sib(tid, Role.Hsc), tid, "Maharashtra")
    ELSE Finish(LoadMapStart(s, Sib(tid, Role.PersonaMap), 0, s.currentState),
                tid, "resolved")

\* a variant that forgets the trends panel
SetPersonaOpsNoTrends(s, tid) ==
    Finish(LoadCriticalOpsStart(s, Sib(tid, Role.PersonaOps), 0), tid, "resolved")

\* lines 465-472: persona === 'ops' (#trendMetric exists: line 1016)
SetPersonaOps(s, tid) ==
    Finish(LoadCriticalOpsStart(
               LoadTrendsStart([s EXCEPT !.trendMetric = "updates"],
                               Sib(tid, Role.PersonaTrends), 0),
               Sib(tid, Role.PersonaOps), 0),
           tid, "resolved")

SetPersona(s, tid, parent, p) ==
    LET s1 == AddTask(s, tid, [NewTask("setPersona", parent, p)
                                 EXCEPT !.cs0 = s.currentState,
                                        !.lvl0 = s.currentMapLevel])
        s2 == [s1 EXCEPT !.persona = p]
    IN  CASE p = "national" -> SetPersonaNational(s2, tid)
          [] p = "state" -> SetPersonaState(s2, tid)
          [] p = "ops" -> SetPersonaOps(s2, tid)
          [] OTHER -> Finish(s2, tid, "resolved")

SetPersonaDone(s, tid, m) ==
    Finish(s, tid, IF m.ok THEN "resolved" ELSE "rejected")

\* -- loadOverview (lines 31-133) --
LoadOverviewStart(s, tid, parent) ==
    LET s1 == AddTask(s, tid, [NewTask("loadOverview", parent, "") EXCEPT !.pc = "data"])
    IN  FetchAPI(s1, tid, OverviewUrl, NoOptions)

\* lines 82-112: this.api.getMapData('state').then(fill #stateFilter), not awaited
StateFilterFillStart(s, tid) ==
    LET s1 == AddTask(s, tid, [NewTask("stateFilterFill", 0, "") EXCEPT !.pc = "data"])
    IN  FetchAPI(s1, tid, MapDataUrl("state"), NoOptions)

StateFilterFillData(s, tid, m) ==
    IF m.ok THEN Finish([GotData(s, tid, m) EXCEPT !.tasks[tid].rendered = TRUE],
                        tid, "resolved")
    ELSE Finish(s, tid, "rejected")

\* lines 33-127: the KPI cards, the state filter, then this.setPersona('national')
\* (not awaited); lines 129-132: the catch
LoadOverviewData(s, tid, m) ==
    IF ~m.ok THEN Finish([s EXCEPT !.tasks[tid].notice = TRUE], tid, "resolved")
    ELSE LET s1 == [GotData(s, tid, m) EXCEPT
                       !.panels.overview = Shown("-", "", m.data),
                       !.tasks[tid].rendered = TRUE]
             s2 == StateFilterFillStart(s1, Sib(tid, Role.Fill))
             s3 == SetPersona(s2, Sib(tid, Role.Persona), 0, "national")
         IN  Finish(s3, tid, "resolved")

\* -- init (lines 13-29) --
InitStart(s, tid, parent) ==
    LET s1 == AddTask(s, tid, [NewTask("init", parent, "")
                                 EXCEPT !.pc = "loads", !.wait = 6])
        s2 == LoadOverviewStart(s1, Sib(tid, Role.Overview), tid)
        s3 == LoadMapStart(s2, Sib(tid, Role.InitMap), tid, Null)
        s4 == LoadRankingsStart(s3, Sib(tid, Role.InitRankings), tid)
        s5 == LoadTrendsStart(s4, Sib(tid, Role.InitTrends), tid)
        s6 == LoadAlertsStart(s5, Sib(tid, Role.InitAlerts), tid)
    IN  LoadCriticalOpsStart(s6, Sib(tid, Role.InitOps), tid)

\* lines 24-28: setupEventListeners(); startAutoRefresh()
InitDone(s, tid, m) ==
    IF m.ok
    THEN Finish([s EXCEPT !.listeners = @ + 1, !.timers = @ + 1], tid, "resolved")
    ELSE Finish(s, tid, "rejected")

\* -- refreshDashboard (lines 1092-1097) and AGHIAPI.refreshData (139-157) --
Quiescent(s) ==
    s.net = {} /\ \A i \in DOMAIN s.tasks : s.tasks[i].res # "pending"

RefreshDashboard(s, tid) ==
    LET s1 == AddTask(s, tid, [NewTask("refreshDashboard", 0, "")
                                 EXCEPT !.pc = "post", !.cs0 = s.currentState,
                                        !.persona0 = s.persona, !.quiet = Quiescent(s)])
        s2 == [ClearCache(s1) EXCEPT !.gen = @ + 1]
    IN  [s2 EXCEPT !.net = @ \cup {[id |-> tid, kind |-> "refreshPost",
                                    key |-> <<"/refresh-data", "POST">>,
                                    gen |-> s2.gen, waiters |-> {tid}]}]

\* refreshData lines 145-152: not ok throws; ok clears the cache, then the
\* body is awaited
RefreshPosted(s, tid, m) ==
    IF ~m.ok THEN Finish(s, tid, "rejected")
    ELSE LET s1 == [ClearCache(s) EXCEPT !.tasks[tid].pc = "json"]
         IN  [s1 EXCEPT !.net = @ \cup {[id |-> tid, kind |-> "refreshJson",
                                         key |-> <<"/refresh-data", "POST">>,
                                         gen |-> s1.gen, waiters |-> {tid}]}]

\* await this.init()
RefreshBody(s, tid, m) ==
    IF ~m.ok THEN Finish(s, tid, "rejected")
    ELSE InitStart([s EXCEPT !.tasks[tid].pc = "init", !.tasks[tid].wait = 1],
                   Sib(tid, Role.Init), tid)

RefreshDone(s, tid, m) ==
    Finish(s, tid, IF m.ok THEN "resolved" ELSE "rejected")

\* -- performMapSearch (lines 1099-1122) and the suggestion list (1124-1253) --
\* A string is a sequence of characters.  String.prototype.toLowerCase:
ToLowerCase(w) ==
    [i \in DOMAIN w |-> IF w[i] = "A" THEN "a" ELSE IF w[i] = "B" THEN "b" ELSE w[i]]

\* a variant that accepts the characters of q in order, with gaps
IncludesScattered(w, q) ==
    \E f \in [DOMAIN q -> DOMAIN w] :
        /\ \A i \in DOMAIN q : w[f[i]] = q[i]
        /\ \A i, j \in DOMAIN q : i < j => f[i] < f[j]

\* String.prototype.includes: q occurs in w as a substring
Includes(w, q) ==
    \E i \in 0..(Len(w) - Len(q)) : SubSeq(w, i + 1, i + Len(q)) = q

\* a variant that keeps the last n elements
SliceTail(seq, n) ==
    SubSeq(seq, (IF Len(seq) < n THEN 0 ELSE Len(seq) - n) + 1, Len(seq))

\* Array.prototype.slice(0, n)
Slice(seq, n) == SubSeq(seq, 1, IF Len(seq) < n THEN Len(seq) ELSE n)

\* The datasets getMapData('state') and getMapData('district') return, in
\* the order of the server: names of NameLen letters, the first a capital.
Name(i) ==
    [k \in 1..NameLen |->
        LET bit == (i \div (2 ^ (k - 1))) % 2
        IN  IF k = 1 THEN (IF bit = 0 THEN "A" ELSE "B")
            ELSE (IF bit = 0 THEN "a" ELSE "b")]
StateData == [i \in 1..NStates |-> [state |-> Name(i)]]
DistrictData ==
    [i \in 1..NDistricts |->
        [district |-> Name(i + NStates), state |-> Name(((i - 1) % NStates) + 1)]]

\* lines 1152-1154: stateData.filter(d => d.state.toLowerCase().includes(...))
StateMatches(query, stateData) ==
    SelectSeq(stateData,
              LAMBDA d : Includes(ToLowerCase(d.state), ToLowerCase(query)))

\* lines 1111-1114: districtData.filter(d => the district or its state matches)
DistrictMatches(query, districtData) ==
    SelectSeq(districtData,
              LAMBDA d : \/ Includes(ToLowerCase(d.district), ToLowerCase(query))
                         \/ Includes(ToLowerCase(d.state), ToLowerCase(query)))

NoList == [shown |-> FALSE, query |-> <<>>, states |-> <<>>, districts |-> <<>>,
           none |-> FALSE]

\* showSearchSuggestions (lines 1124-1199): the existing list is removed;
\* nothing more for a query shorter than 2; else up to 5 states and up to 8
\* of the district matches, or 'No results found' when there is neither
ShowSearchSuggestions(s, query, stateData, districtMatches) ==
    IF Len(query) < 2 THEN [s EXCEPT !.suggestions = NoList]
    ELSE LET matchingStates == Slice(StateMatches(query, stateData), StateCap)
             districts == Slice(districtMatches, DistrictCap)
         IN  [s EXCEPT !.suggestions =
                 [shown |-> TRUE, query |-> query, states |-> matchingStates,
                  districts |-> districts,
                  none |-> matchingStates = <<>> /\ districtMatches = <<>>]]

PerformMapSearchStart(s, tid, query) ==
    LET s1 == AddTask(s, tid, [NewTask("performMapSearch", 0, "")
                                 EXCEPT !.pc = "state", !.query = query])
    IN  FetchAPI(s1, tid, MapDataUrl("state"), NoOptions)

\* resumed with the state data: the district data is awaited next
PerformMapSearchState(s, tid, m) ==
    IF ~m.ok THEN Finish(s, tid, "resolved")
    ELSE FetchAPI([s EXCEPT !.tasks[tid].pc = "district"], tid, MapDataUrl("district"), NoOptions)

\* a variant that also navigates to the state of the first district match
PerformMapSearchDistrictNavigates(s, tid, m) ==
    IF ~m.ok THEN Finish(s, tid, "resolved")
    ELSE LET query == s.tasks[tid].query
             matches == DistrictMatches(query, DistrictData)
             s1 == ShowSearchSuggestions(GotData(s, tid, m), query, StateData, matches)
         IN  Finish([s1 EXCEPT !.tasks[tid].rendered = TRUE,
                               !.currentState =
                                   IF matches = <<>> THEN @ ELSE "Maharashtra",
                               !.currentMapLevel =
                                   IF matches = <<>> THEN @ ELSE "district"],
                    tid, "resolved")

\* resumed with the district data: showSearchSuggestions
PerformMapSearchDistrict(s, tid, m) ==
    IF ~m.ok THEN Finish(s, tid, "resolved")
    ELSE LET query == s.tasks[tid].query
         IN  Finish([ShowSearchSuggestions(GotData(s, tid, m), query, StateData,
                                           DistrictMatches(query, DistrictData))
                        EXCEPT !.tasks[tid].rendered = TRUE],
                    tid, "resolved")

\* lines 1217-1236: the click on a district suggestion of state r:
\* this.drillDownToState(state), not awaited, then setTimeout(..., 500);
\* lines 1238-1239: the list is removed and the search box cleared
SelectDistrictStart(s, tid, r) ==
    LET s1 == DrillDownToState(s, Sib(tid, Role.Hsc), 0, r)
        s2 == AddTask(s1, tid, [NewTask("detailCard", 0, r) EXCEPT !.pc = "timer"])
    IN  [s2 EXCEPT !.suggestions = NoList, !.mapSearch = <<>>,
                   !.net = @ \cup {[id |-> tid, kind |-> "timer",
                                    key |-> <<"setTimeout", "500">>,
                                    gen |-> s.gen, waiters |-> {tid}]}]

\* lines 1220-1235: the timer callback shows the card of the district; busy
\* records the drill-downs that have not settled by then
DetailCardShow(s, tid, m) ==
    Finish([s EXCEPT !.card = s.tasks[tid].arg,
                     !.tasks[tid].rendered = TRUE,
                     !.tasks[tid].busy = PendingOf(s, "handleStateChange")],
           tid, "resolved")

\* -- the chat box: sendChatMessage (lines 1062-1078), handleChat (1411-1449),
\* openBriefing (996-1010) --
\* the action field of the backend's reply to a message: the messages
\* 'state', 'national' and 'report' are answered with the action of that
\* name, any other message with a reply that has no action ("")
ChatAction(text) ==
    IF Len(text) = 1 /\ text[1] \in {"state", "national", "report"} THEN text[1] ELSE ""

\* openBriefing: the modal is opened for this.currentState and the report
\* is awaited
OpenBriefingStart(s, tid) ==
    LET s1 == AddTask(s, tid, [NewTask("openBriefing", 0, s.currentState)
                                 EXCEPT !.pc = "data"])
    IN  FetchAPI(s1, tid, <<"/generate-briefing">>, PostOptions("state", <<s.currentState>>))

\* lines 1006-1009: the sections of the report, or the error text
OpenBriefingData(s, tid, m) ==
    IF m.ok
    THEN Finish([GotData(s, tid, m) EXCEPT !.tasks[tid].rendered = TRUE], tid, "resolved")
    ELSE Finish([s EXCEPT !.tasks[tid].notice = TRUE], tid, "resolved")

\* document.getElementById('generateBriefing').click(): the onclick of line
\* 121 shows a toast, then each listener of line 1045 calls openBriefing
RECURSIVE BriefingClick(_, _)
BriefingClick(s, n) ==
    IF n = 0 THEN s
    ELSE BriefingClick(OpenBriefingStart([s EXCEPT !.nRoots = @ + 1],
                                         Tid(s.nRoots + 1, Role.Briefing)), n - 1)

\* sendChatMessage(): #chatInput holds text; an empty box returns at once,
\* else the box is emptied and the reply of api.sendChatMessage awaited
SendChatMessageStart(s, tid, text) ==
    IF text = <<>> THEN s
    ELSE LET s1 == AddTask(s, tid, [NewTask("sendChatMessage", 0, "")
                                      EXCEPT !.pc = "reply", !.query = text])
         IN  FetchAPI(s1, tid, <<"/chat">>, PostOptions("query", text))

\* lines 1071-1076: addMessageToChat(data.response, 'ai'), or the error text
SendChatMessageReply(s, tid, m) ==
    IF m.ok
    THEN Finish([GotData(s, tid, m) EXCEPT !.tasks[tid].rendered = TRUE], tid, "resolved")
    ELSE Finish([s EXCEPT !.tasks[tid].notice = TRUE], tid, "resolved")

\* handleChat(): as above, but the message goes to fetch('/api/chat')
HandleChatStart(s, tid, text) ==
    IF text = <<>> THEN s
    ELSE LET s1 == AddTask(s, tid, [NewTask("handleChat", 0, "")
                                      EXCEPT !.pc = "fetch", !.query = text])
         IN  [s1 EXCEPT !.net = @ \cup {[id |-> tid, kind |-> "chat",
                                          key |-> <<"/api/chat", "POST">>,
                                          gen |-> s.gen, waiters |-> {tid}]}]

\* lines 1444-1448: the catch of handleChat
HandleChatCatch(s, tid) == Finish([s EXCEPT !.tasks[tid].notice = TRUE], tid, "resolved")

\* line 1429: const data = await res.json()
HandleChatFetched(s, tid, m) ==
    IF ~m.ok THEN HandleChatCatch(s, tid)
    ELSE [s EXCEPT !.tasks[tid].pc = "json",
                   !.net = @ \cup {[id |-> tid, kind |-> "chatJson",
                                     key |-> <<"/api/chat", "POST">>,
                                     gen |-> s.gen, waiters |-> {tid}]}]

\* task tid records the calls made since the tasks were those of before
Started(s, tid, before) == [s EXCEPT !.tasks[tid].started = DOMAIN s.tasks \ before]

\* lines 1431-1442: the reply is shown, then its action is run; started
\* records the calls the action has made
HandleChatReply(s, tid, m) ==
    IF ~m.ok THEN HandleChatCatch(s, tid)
    ELSE LET action == ChatAction(s.tasks[tid].query)
             s1 == [s EXCEPT !.tasks[tid].rendered = TRUE]
             s2 == CASE action \in {"state", "national"} ->
                           SetPersona(s1, Sib(tid, Role.Persona), 0, action)
                      [] action = "report" -> BriefingClick(s1, s1.listeners)
                      [] OTHER -> s1
         IN  Finish(Started(s2, tid, DOMAIN s.tasks), tid, "resolved")

\* -- the plotly_click listener of the map (lines 890-908) --
\* a variant that drills down whatever the level of the map
MapClickedDrills(s, tid, r) ==
    LET s1 == AddTask(s, tid, [NewTask("mapClick", 0, r)
                                 EXCEPT !.level = s.panels.map.level, !.pc = "done",
                                        !.res = "resolved", !.cs0 = s.currentState,
                                        !.lvl0 = s.currentMapLevel])
    IN  DrillDownToState(s1, Sib(tid, Role.Hsc), 0, r)

\* The listener of the last render, the one listener of the element (line
\* 892), with the level of that render: on a state-level map the state r was
\* clicked and drillDownToState(r) is called, not awaited; on a district-level
\* map a district of r was clicked and its detail card is shown
MapClicked(s, tid, r) ==
    LET level == s.panels.map.level
        s1 == AddTask(s, tid, [NewTask("mapClick", 0, r)
                                 EXCEPT !.level = level, !.pc = "done",
                                        !.res = "resolved", !.cs0 = s.currentState,
                                        !.lvl0 = s.currentMapLevel])
    IN  IF level = "state" THEN DrillDownToState(s1, Sib(tid, Role.Hsc), 0, r)
        ELSE [s1 EXCEPT !.card = r]

\* ---- the microtask queue ---------------------------------------------------
Resume(s, m) ==
    LET tid == m.task
        t == s.tasks[tid]
    IN  CASE t.kind = "loadMap" /\ t.pc = "data" -> LoadMapData(s, tid, m)
          [] t.kind = "loadMap" /\ t.pc = "geoLocal" -> LoadMapGeoLocal(s, tid, m)
          [] t.kind = "loadMap" /\ t.pc = "geoRemote" -> LoadMapGeoRemote(s, tid, m)
          [] t.kind = "loadRankings" -> LoadRankingsData(s, tid, m)
          [] t.kind = "loadTrends" -> LoadTrendsData(s, tid, m)
          [] t.kind = "loadAlerts" /\ t.pc = "data" -> LoadAlertsData(s, tid, m)
          [] t.kind = "loadAlerts" /\ t.pc = "done" -> TypeWriter(s, tid)
          [] t.kind = "loadCriticalOps" -> LoadCriticalOpsData(s, tid, m)
          [] t.kind = "loadOverview" -> LoadOverviewData(s, tid, m)
          [] t.kind = "stateFilterFill" -> StateFilterFillData(s, tid, m)
          [] t.kind = "populateDistrictDropdown" -> PopulateDistrictDropdownData(s, tid, m)
          [] t.kind = "handleStateChange" /\ t.pc = "populate" ->
                IF m.ok THEN HandleStateChangeReload(s, tid)
                ELSE Finish(s, tid, "rejected")
          [] t.kind = "handleStateChange" /\ t.pc = "reload" -> HandleStateChangeDone(s, tid, m)
          [] t.kind = "setPersona" -> SetPersonaDone(s, tid, m)
          [] t.kind = "init" -> InitDone(s, tid, m)
          [] t.kind = "refreshDashboard" /\ t.pc = "post" -> RefreshPosted(s, tid, m)
          [] t.kind = "refreshDashboard" /\ t.pc = "json" -> RefreshBody(s, tid, m)
          [] t.kind = "refreshDashboard" /\ t.pc = "init" -> RefreshDone(s, tid, m)
          [] t.kind = "performMapSearch" /\ t.pc = "state" ->
                PerformMapSearchState(s, tid, m)
          [] t.kind = "performMapSearch" /\ t.pc = "district" ->
                PerformMapSearchDistrict(s, tid, m)
          [] t.kind = "detailCard" -> DetailCardShow(s, tid, m)
          [] t.kind = "openBriefing" -> OpenBriefingData(s, tid, m)
          [] t.kind = "sendChatMessage" -> SendChatMessageReply(s, tid, m)
          [] t.kind = "handleChat" /\ t.pc = "fetch" -> HandleChatFetched(s, tid, m)
          [] t.kind = "handleChat" /\ t.pc = "json" -> HandleChatReply(s, tid, m)
          [] t.kind = "call" -> Finish(IF m.ok THEN GotData(s, tid, m) ELSE s, tid,
                                       IF m.ok THEN "resolved" ELSE "rejected")
          [] OTHER -> s

RECURSIVE Drain(_)
Drain(s) ==
    IF s.ready = <<>> THEN s
    ELSE Drain(Resume([s EXCEPT !.ready = Tail(@)], Head(s.ready)))

\* the arrival of the response to request r
Respond(s, r, ok) ==
    IF r.kind = "api" THEN FetchAPIResponse(s, r, ok)
    ELSE Enqueue([s EXCEPT !.net = @ \ {r}], r.id, ok, 0, 0)

\* ---- macrotasks -------------------------------------------------------------
TickSteps == {1, cacheDuration - 1}

\* the records of settled calls are dropped once the page is idle
Forget(s) == IF Quiescent(s) THEN [s EXCEPT !.tasks = <<>>] ELSE s

\* one listener of a control runs as a new top-level call; the microtask
\* queue drains after it
Handler(s, h, arg) ==
    LET root == s.nRoots + 1
        s1 == [s EXCEPT !.nRoots = root]
    IN  Drain(CASE h = "drill" -> DrillDownToState(s1, Tid(root, Role.Hsc), 0, arg)
                [] h = "handleStateChange" ->
                       HandleStateChangeStart(s1, Tid(root, Role.Hsc), 0, arg)
                [] h = "persona" -> SetPersona(s1, Tid(root, Role.Persona), 0, arg)
                [] h = "init" -> InitStart(s1, Tid(root, Role.Init), 0)
                [] h = "search" -> PerformMapSearchStart(s1, Tid(root, Role.Search), arg)
                [] h = "loadRankings" -> LoadRankingsStart(s1, Tid(root, Role.Rankings), 0)
                [] h = "mapClick" -> MapClicked(s1, Tid(root, Role.MapClick), arg)
                [] h = "selectDistrict" ->
                       SelectDistrictStart(s1, Tid(root, Role.Card), arg)
                [] h = "sendChatMessage" ->
                       SendChatMessageStart(s1, Tid(root, Role.Chat), arg)
                [] h = "handleChat" -> HandleChatStart(s1, Tid(root, Role.Chat), arg)
                [] OTHER -> RefreshDashboard(s1, Tid(root, Role.Refresh)))

\* every listener setupEventListeners has bound to the control runs in turn
RECURSIVE Invoke(_, _, _, _)
Invoke(s, n, h, arg) ==
    IF n = 0 THEN s ELSE Invoke(Handler(s, h, arg), n - 1, h, arg)

Counters(e, f, c, t) ==
    /\ nEvents' = nEvents + e
    /\ nFail' = nFail + f
    /\ nCalls' = nCalls + c
    /\ nTicks' = nTicks + t
    /\ nAnswers' = nAnswers

\* a click on a state of the state-level map (lines 895-903), on a ranking
\* item (522-524) or on an alert (705): drillDownToState(that state)
ClickRegion(r) ==
    /\ r # "National"
    /\ \/ panels.rankings.shown
       \/ panels.alerts.shown
       \/ panels.map.shown /\ panels.map.level = "state"
    /\ Commit(Handler(Forget(St), "drill", r))
    /\ Counters(1, 0, 0, 0)

\* a click on a location of the map as it is drawn: the state r of the
\* state-level map, or a district of r on the district-level map (of the
\* state the map is filtered to, if any)
MapClick(r) ==
    /\ r # "National"
    /\ panels.map.shown
    /\ panels.map.content = "data"
    /\ (panels.map.level = "district" /\ panels.map.region # Null)
          => r = panels.map.region
    /\ Commit(Handler(Forget(St), "mapClick", r))
    /\ Counters(1, 0, 0, 0)

\* #stateFilter change (line 1013); its options are National and Maharashtra
\* (lines 87-101)
StateFilterChange(r) ==
    /\ listeners >= 1
    /\ r \in PilotRegions
    /\ r # currentState
    /\ Commit(Invoke(Forget(St), listeners, "drill", r))
    /\ Counters(1, 0, 0, 0)

\* a click on the 'India' item of the breadcrumb: its inline onclick (line
\* 753), then the listeners of #mapBreadcrumb (lines 1024-1026)
BreadcrumbClick ==
    /\ breadcrumb # "India"
    /\ Commit(Invoke(Handler(Forget(St), "handleStateChange", "National"),
                     listeners, "drill", "National"))
    /\ Counters(1, 0, 0, 0)

\* a click on a persona button (lines 1057-1059)
PersonaClick(p) ==
    /\ listeners >= 1
    /\ Commit(Invoke(Forget(St), listeners, "persona", p))
    /\ Counters(1, 0, 0, 0)

\* a click on #refreshBtn (line 1014)
RefreshClick ==
    /\ listeners >= 1
    /\ Commit(Invoke(Forget(St), listeners, "refresh", ""))
    /\ Counters(1, 0, 0, 0)

\* one of the interval timers of startAutoRefresh fires (line 1378)
AutoRefresh ==
    /\ timers >= 1
    /\ Commit(Handler(Forget(St), "refresh", ""))
    /\ Counters(1, 0, 0, 0)

\* #rankingType change (line 1015): loadRankings(); the value of the control
\* picks the list of the response that is shown (line 493), not the request
RankingTypeChange ==
    /\ listeners >= 1
    /\ Commit(Invoke(Forget(St), listeners, "loadRankings", ""))
    /\ Counters(1, 0, 0, 0)

\* lines 1019-1022: the 'input' listeners of #mapSearch, the box holding value
MapSearchInput(s, value) ==
    LET query == ToLowerCase(value)
    IN  IF Len(query) > 2 THEN Invoke(s, s.listeners, "search", query) ELSE s

\* the user edits #mapSearch: its value becomes q and an 'input' event fires
MapSearch(q) ==
    /\ listeners >= 1
    /\ q # mapSearch
    /\ Commit(MapSearchInput([Forget(St) EXCEPT !.mapSearch = q], q))
    /\ Counters(1, 0, 0, 0)

\* a click on a district suggestion of state r (lines 1208-1241)
SelectDistrictSuggestion(r) ==
    /\ suggestions.shown
    /\ suggestions.districts # <<>>
    /\ r # "National"
    /\ Commit(Handler(Forget(St), "selectDistrict", r))
    /\ Counters(1, 0, 0, 0)

\* #chatInput holds text and #sendChat is clicked (line 1042), or Enter is
\* pressed in the box (line 1043): the handler leaves the box empty
ChatSend(text) ==
    /\ listeners >= 1
    /\ Commit(Invoke(Forget(St), listeners, "sendChatMessage", text))
    /\ Counters(1, 0, 0, 0)

\* handleSuggestion(text) (lines 1405-1409), called through window.dashboard:
\* the box gets text, then handleChat()
HandleSuggestion(text) ==
    /\ Commit(Handler(Forget(St), "handleChat", text))
    /\ Counters(1, 0, 0, 0)

\* the user picks the option d of #trendDistrict; no listener is bound to
\* the control
SelectDistrict(d) ==
    /\ trendDistrict.display
    /\ d \in DistrictsOf(districtOptions)
    /\ d # trendDistrict.value
    /\ Commit([Forget(St) EXCEPT !.trendDistrict.value = d])
    /\ Counters(1, 0, 0, 0)

\* a timer set by setTimeout expires
TimerFire(r) ==
    /\ r \in net
    /\ r.kind = "timer"
    /\ Commit(Drain(Respond(St, r, TRUE)))
    /\ Counters(0, 0, 0, 0)

\* the response to a request arrives: success
DeliverOk(r) ==
    /\ r \in net
    /\ r.kind # "timer"
    /\ Commit(Drain(Respond(St, r, TRUE)))
    /\ Counters(0, 0, 0, 0)

\* the request is rejected or answered with a non-success status
DeliverFail(r) ==
    /\ r \in net
    /\ r.kind # "timer"
    /\ Commit(Drain(Respond(St, r, FALSE)))
    /\ Counters(0, 1, 0, 0)

\* the remote geometry source answers with a non-success status and a body
\* that is JSON (an error document)
DeliverErrorBody(r) ==
    /\ r \in net
    /\ r.kind = "geoRemote"
    /\ Commit(Drain(LoadMapGeoRemoteBody([St EXCEPT !.net = @ \ {r}], r.id, FALSE)))
    /\ Counters(0, 1, 0, 0)

\* the request never gets a response: whoever awaits it stays suspended
Hang(r) ==
    /\ r \in net
    /\ r.kind # "timer"
    /\ Commit([St EXCEPT !.net = @ \ {r},
                         !.tasks = [i \in DOMAIN @ |->
                                      IF i \in r.waiters
                                      THEN [@[i] EXCEPT !.hung = TRUE] ELSE @[i]]])
    /\ Counters(0, 1, 0, 0)

\* ---- initial states ----------------------------------------------------------
\* the fields before the DashboardManager constructor calls init()
Blank ==
    [currentState |-> "National", currentMapLevel |-> "state",
     persona |-> "national",
     geoData |-> [l \in Levels |-> Null], cache |-> <<>>, now |-> 0,
     net |-> {}, tasks |-> <<>>,
     panels |-> [p \in PanelNames |-> NoPanel], breadcrumb |-> "India",
     districtOptions |-> "-", trendDistrict |-> [value |-> "", display |-> FALSE],
     trendMetric |-> Null,
     server |-> [alertText |-> <<>>, empty |-> {}], alertMsg |-> <<>>,
     mapSearch |-> <<>>, suggestions |-> NoList, card |-> Null, listeners |-> 0, timers |-> 0, gen |-> 0,
     geoFetches |-> [l \in Levels |-> 0],
     lastMap |-> [set |-> FALSE, level |-> "-", region |-> "-"], nRoots |-> 0,
     ready |-> <<>>]

\* constructor (lines 3-11): the fields, then this.init() up to its await
Constructed == Handler(Blank, "init", "")

\* the page once the startup sequence has settled, every response having
\* arrived with success, oldest request first
RECURSIVE Settle(_)
Settle(s) ==
    IF s.net = {} THEN s
    ELSE LET r == CHOOSE x \in s.net : \A y \in s.net : x.id <= y.id
         IN  Settle(Drain(Respond(s, r, TRUE)))

Loaded == Settle(Constructed)

StartAt(s) ==
    /\ currentState = s.currentState
    /\ currentMapLevel = s.currentMapLevel
    /\ persona = s.persona
    /\ geoData = s.geoData
    /\ cache = s.cache
    /\ now = s.now
    /\ net = s.net
    /\ tasks = s.tasks
    /\ panels = s.panels
    /\ breadcrumb = s.breadcrumb
    /\ districtOptions = s.districtOptions
    /\ trendDistrict = s.trendDistrict
    /\ trendMetric = s.trendMetric
    /\ server = s.server
    /\ alertMsg = s.alertMsg
    /\ mapSearch = s.mapSearch
    /\ suggestions = s.suggestions
    /\ card = s.card
    /\ listeners = s.listeners
    /\ timers = s.timers
    /\ gen = s.gen
    /\ geoFetches = s.geoFetches
    /\ lastMap = s.lastMap
    /\ nRoots = s.nRoots
    /\ nEvents = 0 /\ nFail = 0 /\ nCalls = 0 /\ nTicks = 0 /\ nAnswers = 0

\* ---- Spec: the startup sequence, from the constructor ------------------------
Init == StartAt(Constructed)

Next ==
    \/ \E r \in net : DeliverOk(r)
    \/ \E r \in net : nFail < MaxFail /\ DeliverFail(r)

Spec == Init /\ [][Next]_vars

\* ---- SpecHang: the startup sequence when a request may never be answered -----
HangNext ==
    \/ \E r \in net : DeliverOk(r)
    \/ \E r \in net : nFail < MaxHang /\ Hang(r)

SpecHang == Init /\ [][HangNext]_vars

\* ---- SpecNav: navigation on the loaded page ----------------------------------
NavInit == StartAt(Loaded)

NavNext ==
    \/ \E r \in Regions : nEvents < MaxEvents /\ ClickRegion(r)
    \/ \E r \in Regions : nEvents < MaxEvents /\ StateFilterChange(r)
    \/ nEvents < MaxEvents /\ BreadcrumbClick
    \/ \E p \in Personas : nEvents < MaxEvents /\ PersonaClick(p)
    \/ \E r \in net : DeliverOk(r)
    \/ \E r \in net : nFail < MaxFail /\ DeliverFail(r)

SpecNav == NavInit /\ [][NavNext]_vars

\* ---- SpecRace: overlapping drill-downs on the loaded page, every response
\* arriving with success ------------------------------------------------------
RaceNext ==
    \/ \E r \in PilotRegions : nEvents < MaxEvents /\ ClickRegion(r)
    \/ \E r \in PilotRegions : nEvents < MaxEvents /\ StateFilterChange(r)
    \/ nEvents < MaxEvents /\ BreadcrumbClick
    \/ \E r \in net : DeliverOk(r)

SpecRace == NavInit /\ [][RaceNext]_vars

\* ---- SpecPersona: persona switches on the loaded page, every response
\* arriving with success -------------------------------------------------------
PersonaNext ==
    \/ \E p \in Personas : nEvents < MaxPersonaEvents /\ PersonaClick(p)
    \/ \E r \in net : DeliverOk(r)

SpecPersona == NavInit /\ [][PersonaNext]_vars

\* ---- SpecSearch: the map search on the loaded page, every response arriving
\* with success ------------------------------------------------------------------
SearchNext ==
    \/ \E q \in {<<>>, <<"a">>, <<"a", "b">>, <<"A", "b", "a">>, <<"c", "c">>,
                  <<"c", "c", "c">>} :
          nEvents < MaxSearchEvents /\ MapSearch(q)
    \/ \E r \in Regions : nEvents < MaxSearchEvents /\ SelectDistrictSuggestion(r)
    \/ \E r \in net : TimerFire(r)
    \/ \E r \in net : DeliverOk(r)

SpecSearch == NavInit /\ [][SearchNext]_vars

\* ---- SpecReload: the panel reload of a drill-down, any fetch may fail --------
ReloadNext ==
    \/ \E r \in PilotRegions : nEvents < MaxReloads /\ ClickRegion(r)
    \/ \E r \in PilotRegions : nEvents < MaxReloads /\ StateFilterChange(r)
    \/ \E r \in net : DeliverOk(r)
    \/ \E r \in net : nFail < MaxReloadFail /\ DeliverFail(r)

SpecReload == NavInit /\ [][ReloadNext]_vars

\* ---- SpecGeo: the first geometry load of the district level, any fetch may
\* fail and the remote source may answer with an error document ---------------
GeoNext ==
    \/ \E r \in PilotRegions : nEvents < MaxReloads /\ ClickRegion(r)
    \/ \E r \in net : DeliverOk(r)
    \/ \E r \in net : nFail < MaxReloadFail /\ DeliverFail(r)
    \/ \E r \in net : nFail < MaxReloadFail /\ DeliverErrorBody(r)

SpecGeo == NavInit /\ [][GeoNext]_vars

\* ---- SpecRefresh: refreshes of the loaded page, every response arriving with
\* success and /overview being the slowest endpoint ---------------------------
SlowOverview(r) ==
    r.key = CacheKey(OverviewUrl, NoOptions) =>
        \A q \in net : q.kind = "api" => q.key = r.key

RefreshNext ==
    \/ nEvents < MaxRefreshEvents /\ ClickRegion("Maharashtra")
    \/ nEvents < MaxRefreshEvents /\ RefreshClick
    \/ nEvents < MaxRefreshEvents /\ AutoRefresh
    \/ \E r \in net : SlowOverview(r) /\ DeliverOk(r)

SpecRefresh == NavInit /\ [][RefreshNext]_vars

\* ---- SpecAlerts: a refresh while the alert feed of the startup sequence is
\* still being typed, every response arriving with success -------------------
AlertText == [i \in 1..AlertLen |-> IF i % 2 = 1 THEN "x" ELSE "y"]

\* every request in flight is answered with success, oldest first; the
\* timers stay pending
RECURSIVE SettleRequests(_)
SettleRequests(s) ==
    IF \A r \in s.net : r.kind = "timer" THEN s
    ELSE LET rs == {x \in s.net : x.kind # "timer"}
             r == CHOOSE x \in rs : \A y \in rs : x.id <= y.id
         IN  SettleRequests(Drain(Respond(s, r, TRUE)))

\* the page right after the last response of the startup sequence: the
\* server has one alert, whose message loadAlerts has begun to type
Typing ==
    SettleRequests(Handler([Blank EXCEPT !.server.alertText = AlertText], "init", ""))

AlertsNext ==
    \/ nEvents < MaxAlertEvents /\ RefreshClick
    \/ \E r \in net : TimerFire(r)
    \/ \E r \in net : DeliverOk(r)

SpecAlerts == StartAt(Typing) /\ [][AlertsNext]_vars

\* ---- SpecEmpty: the startup sequence when the server has zero records for
\* one of the panels --------------------------------------------------------
ZeroPanels == {"rankings", "trends", "alerts", "map"}

EmptyInit ==
    \E e \in {{}} \cup {{p} : p \in ZeroPanels} :
        StartAt(Handler([Blank EXCEPT !.server.empty = e], "init", ""))

SpecEmpty == EmptyInit /\ [][Next]_vars

\* ---- SpecChat: messages of the chat box on the loaded page ------------------
ChatTexts == {<<>>, <<"hello">>, <<"state">>, <<"national">>, <<"report">>}

ChatNext ==
    \/ \E x \in ChatTexts : nEvents < MaxChatEvents /\ ChatSend(x)
    \/ \E x \in ChatTexts : nEvents < MaxChatEvents /\ HandleSuggestion(x)
    \/ \E r \in net : DeliverOk(r)
    \/ \E r \in net : nFail < MaxFail /\ DeliverFail(r)

SpecChat == NavInit /\ [][ChatNext]_vars

\* ---- SpecRank: the ranking-type selector and drill-downs on the loaded page,
\* every response arriving with success ---------------------------------------
RankNext ==
    \/ \E r \in PilotRegions : nEvents < MaxRankEvents /\ ClickRegion(r)
    \/ \E r \in PilotRegions : nEvents < MaxRankEvents /\ StateFilterChange(r)
    \/ nEvents < MaxRankEvents /\ RankingTypeChange
    \/ \E r \in net : DeliverOk(r)

SpecRank == NavInit /\ [][RankNext]_vars

\* ---- SpecTrend: the district selector and drill-downs on the loaded page,
\* every response arriving with success ---------------------------------------
TrendNext ==
    \/ \E r \in PilotRegions : nEvents < MaxTrendEvents /\ StateFilterChange(r)
    \/ \E d \in {"Pune", "Patna"} : nEvents < MaxTrendEvents /\ SelectDistrict(d)
    \/ \E r \in net : DeliverOk(r)

SpecTrend == NavInit /\ [][TrendNext]_vars

\* ---- SpecMap: clicks on the map of the loaded page, every response arriving
\* with success ------------------------------------------------------------------
MapNext ==
    \/ \E r \in PilotRegions : nEvents < MaxMapEvents /\ MapClick(r)
    \/ nEvents < MaxMapEvents /\ BreadcrumbClick
    \/ \E r \in net : DeliverOk(r)

SpecMap == NavInit /\ [][MapNext]_vars

\* ---- SpecLive: navigation on the loaded page when every request is answered
\* in the end, the responses arriving in the order of the requests ------------
Oldest(r) == \A q \in net : r.id <= q.id

\* the response to a request arrives, with success or not, and is counted
AnswerOk(r) ==
    /\ r \in net
    /\ Commit(Drain(Respond(St, r, TRUE)))
    /\ UNCHANGED <<nEvents, nFail, nCalls, nTicks>>
    /\ nAnswers' = nAnswers + 1

AnswerFail(r) ==
    /\ r \in net
    /\ Commit(Drain(Respond(St, r, FALSE)))
    /\ nFail' = nFail + 1
    /\ UNCHANGED <<nEvents, nCalls, nTicks>>
    /\ nAnswers' = nAnswers + 1

LiveNext ==
    \/ \E r \in Regions : nEvents < MaxLiveEvents /\ ClickRegion(r)
    \/ \E p \in Personas : nEvents < MaxLiveEvents /\ PersonaClick(p)
    \/ nEvents < MaxLiveEvents /\ RefreshClick
    \/ \E r \in net : Oldest(r) /\ AnswerOk(r)
    \/ \E r \in net : Oldest(r) /\ nFail < MaxFail /\ AnswerFail(r)

\* Some request in flight is answered.  Every AnswerOk and AnswerFail step is
\* such a step, and one is possible exactly while a request is in flight.
Answered == net # {} /\ nAnswers' = nAnswers + 1

\* every network request resolves or rejects in the end
SpecLive == NavInit /\ [][LiveNext]_vars /\ WF_nAnswers(Answered)

\* ---- SpecCache: the response cache on its own --------------------------------
CacheUrls == {OverviewUrl, MapDataUrl("state")}

\* a gateway call made directly on the api singleton
CallFetch(url) ==
    /\ LET tid == Tid(nRoots + 1, Role.Call)
           s1 == AddTask([St EXCEPT !.nRoots = @ + 1], tid,
                         [NewTask("call", 0, "") EXCEPT !.pc = "data"])
       IN  Commit(Drain(FetchAPI(s1, tid, url, NoOptions)))
    /\ Counters(0, 0, 1, 0)

\* time passes
Tick(d) ==
    /\ Commit([St EXCEPT !.now = @ + d])
    /\ Counters(0, 0, 0, 1)

\* const api = new AGHIAPI(): an empty cache
CacheInit == StartAt(Blank)

CacheNext ==
    \/ \E u \in CacheUrls : nCalls < MaxCalls /\ CallFetch(u)
    \/ \E d \in TickSteps : nTicks < MaxTicks /\ Tick(d)
    \/ \E r \in net : DeliverOk(r)
    \/ \E r \in net : nFail < MaxFail /\ DeliverFail(r)

SpecCache == CacheInit /\ [][CacheNext]_vars

\* ---- SpecKey: gateway methods called directly, every response arriving
\* with success ---------------------------------------------------------------
\* the state names are 'Goa' and 'Goa&district=Bihar', the district is absent
\* or 'Bihar'
GatewayCalls ==
    LET states == {<<"Goa">>, <<"Goa", "&", "district", "=", "Bihar">>}
    IN  {GatewayCallOf("getOverview", "", "", <<>>, <<>>)}
        \cup {GatewayCallOf("getMapData", l, "", <<>>, <<>>) : l \in Levels}
        \cup {GatewayCallOf("getTrends", "", "", st, d) :
                  st \in states, d \in {<<>>, <<"Bihar">>}}
        \cup {GatewayCallOf("getRankings", l, "10", st, <<>>) :
                  l \in Levels, st \in states \cup {<<>>}}
        \cup {GatewayCallOf(m, "", "", st, <<>>) :
                  m \in {"getDiagnosis", "generateBriefing"}, st \in states}

\* the endpoint the method builds (lines 50-76, 110-131)
GatewayUrl(c) ==
    CASE c.m = "getOverview" -> OverviewUrl
      [] c.m = "getMapData" -> MapDataUrl(c.level)
      [] c.m = "getTrends" -> TrendsUrlOf(c.state, c.district)
      [] c.m = "getRankings" -> RankingsUrlOf(c.level, c.limit, c.state)
      [] c.m = "getDiagnosis" -> <<"/diagnose">>
      [] OTHER -> <<"/generate-briefing">>

\* the options it passes: none, or
\* { method: 'POST', body: JSON.stringify({ state }) } (lines 119-122, 127-130)
GatewayOptions(c) ==
    IF c.m \in {"getDiagnosis", "generateBriefing"}
    THEN PostOptions("state", c.state)
    ELSE NoOptions

\* a gateway method is called on the api singleton
GatewayCall(c) ==
    /\ LET tid == Tid(nRoots + 1, Role.Call)
           s1 == AddTask([St EXCEPT !.nRoots = @ + 1], tid,
                         [NewTask("call", 0, "") EXCEPT !.pc = "data", !.call = c])
       IN  Commit(Drain(FetchAPI(s1, tid, GatewayUrl(c), GatewayOptions(c))))
    /\ Counters(0, 0, 1, 0)

KeyNext ==
    \/ \E c \in GatewayCalls : nCalls < MaxKeyCalls /\ GatewayCall(c)
    \/ \E r \in net : DeliverOk(r)

SpecKey == CacheInit /\ [][KeyNext]_vars

\* ---- properties -----------------------------------------------------------
NavKinds == {"handleStateChange", "setPersona", "refreshDashboard", "init"}
NavIdle == \A i \in DOMAIN tasks : tasks[i].kind \in NavKinds => tasks[i].res # "pending"
Idle == net = {} /\ \A i \in DOMAIN tasks : tasks[i].res # "pending"
Consistent == (currentMapLevel = "district") <=> (currentState # "National")
HscIds == {i \in DOMAIN tasks : tasks[i].kind = "handleStateChange"}
ChildrenOf(p) == {i \in DOMAIN tasks : tasks[i].parent = p}
FreshAtCall(t) == t.hadEntry /\ t.callNow - t.entryTs < cacheDuration
\* nothing but the top-level call of task p has run since the page was idle
Alone(p) == \A i \in DOMAIN tasks : RootOf(i) = RootOf(p)
PanelKinds == {"loadOverview", "loadMap", "loadRankings", "loadTrends",
               "loadAlerts", "loadCriticalOps"}
\* name w contains q as a substring, letter case apart
NameHas(w, q) ==
    \E a, b \in 0..Len(w) :
        a <= b /\ SubSeq(ToLowerCase(w), a + 1, b) = ToLowerCase(q)
\* the records of the datasets that match q, in the order of the datasets
StatesWith(q) == SelectSeq(StateData, LAMBDA d : NameHas(d.state, q))
DistrictsWith(q) ==
    SelectSeq(DistrictData, LAMBDA d : NameHas(d.district, q) \/ NameHas(d.state, q))
\* the gateway calls on record
KeyCallIds == {i \in DOMAIN tasks : tasks[i].call.m # "-"}
\* the request a gateway call stands for: endpoint, the query parameters it
\* sends (name and value as the server decodes them), method, the state in
\* the body
RequestOf(c) ==
    CASE c.m = "getOverview" ->
           [endpoint |-> "/overview", params |-> <<>>, method |-> "GET", body |-> <<>>]
      [] c.m = "getMapData" ->
           [endpoint |-> "/map-data", params |-> << <<"level", <<c.level>> >> >>,
            method |-> "GET", body |-> <<>>]
      [] c.m = "getTrends" ->
           [endpoint |-> "/trends",
            params |-> << <<"state", c.state>> >>
                       \o (IF c.district # <<>> THEN << <<"district", c.district>> >>
                           ELSE <<>>),
            method |-> "GET", body |-> <<>>]
      [] c.m = "getRankings" ->
           [endpoint |-> "/rankings",
            params |-> << <<"level", <<c.level>> >>, <<"limit", <<c.limit>> >> >>
                       \o (IF c.state # <<>> THEN << <<"state", c.state>> >> ELSE <<>>),
            method |-> "GET", body |-> <<>>]
      [] c.m = "getDiagnosis" ->
           [endpoint |-> "/diagnose", params |-> <<>>, method |-> "POST",
            body |-> << <<"state", c.state>> >>]
      [] OTHER ->
           [endpoint |-> "/generate-briefing", params |-> <<>>, method |-> "POST",
            body |-> << <<"state", c.state>> >>]

\* C1: whenever no navigation operation is in progress, currentMapLevel is
\* 'district' exactly when currentState is not 'National'.
C1Claim == NavIdle => Consistent

\* C2: when drillDownToState(Y) is called while an earlier drillDownToState(X)
\* has not settled, then once every call has settled (Y being the last call
\* made) currentState = Y and currentMapLevel is the level of Y.
C2Claim ==
    \A j \in HscIds :
        (Idle /\ RootOf(j) = nRoots /\ tasks[j].busy # {})
            => /\ currentState = tasks[j].arg
               /\ currentMapLevel = LevelFor(tasks[j].arg)

\* C3: at every point where another handler can run while a navigation
\* operation is suspended at an await, currentState and currentMapLevel
\* already agree (the two writes are not separated by a suspension).
C3Claim == ~NavIdle => Consistent

\* C4: a refresh triggered on the idle page, once it and everything it started
\* have settled (and nothing else was started meanwhile), leaves the persona
\* and currentState as they were when it was triggered.
C4Claim ==
    \A t \in DOMAIN tasks :
        (/\ tasks[t].kind = "refreshDashboard"
         /\ tasks[t].quiet
         /\ Idle
         /\ \A i \in DOMAIN tasks : RootOf(i) = RootOf(t))
            => /\ currentState = tasks[t].cs0
               /\ persona = tasks[t].persona0

\* C5: a getOverview call issued after a refresh has cleared the cache never
\* returns a value whose request was issued before that refresh.
C5Claim ==
    \A t \in DOMAIN tasks :
        (tasks[t].kind = "loadOverview" /\ tasks[t].fetchOk /\ tasks[t].callGen >= 1)
            => tasks[t].dataGen >= tasks[t].callGen

\* C6: a reload in flight is never discarded: every loadMap call that got its
\* data and its geometry has rendered them, and the map panel shows the level
\* and filter of the call that got them last, whatever currentState is by then.
C6Rendered ==
    /\ \A t \in DOMAIN tasks :
          (tasks[t].kind = "loadMap" /\ tasks[t].geoOk) => tasks[t].rendered
    /\ lastMap.set =>
          /\ panels.map.shown
          /\ panels.map.level = lastMap.level
          /\ panels.map.region = lastMap.region

\* the page has settled on 'National' while the map still shows the districts
\* of the state an earlier drill-down asked for
C6Witness ==
    /\ Idle
    /\ currentState = "National"
    /\ panels.map.shown /\ panels.map.region = "Maharashtra"
    /\ \E j \in HscIds : tasks[j].arg = "National" /\ tasks[j].busy # {}

\* C7: for each granularity at most one loadMap call fetches the boundary data.
C7Claim == \A l \in Levels : geoFetches[l] <= 1

\* C8 as stated: a fetchAPI call made while a request for the same key is in
\* flight puts no request of its own on the network.
C8Claim ==
    \A t \in DOMAIN tasks : tasks[t].inflight => ~tasks[t].sent

\* C8 amended: a fetchAPI call made while a request for the same key is in
\* flight, the cache holding no fresh entry, puts its own request on the
\* network: requests in flight are not shared.
C8Amended ==
    \A t \in DOMAIN tasks :
        (tasks[t].inflight /\ ~FreshAtCall(tasks[t])) => tasks[t].sent

C8Witness ==
    \E t \in DOMAIN tasks : tasks[t].inflight /\ tasks[t].sent

\* C9: fetchAPI answers from the cache, with no network request, exactly when
\* the cache holds an entry for the key younger than cacheDuration; otherwise
\* it sends a request and a success replaces the entry with the new value
\* stamped with the time of arrival; no value of age >= cacheDuration is
\* returned from the cache.
C9CacheRule ==
    \A i \in DOMAIN tasks :
        LET t == tasks[i]
        IN  t.key # <<>> =>
              /\ t.hit <=> FreshAtCall(t)
              /\ t.hit <=> ~t.sent
              /\ t.hit => /\ t.fetchOk
                          /\ t.dataTs = t.entryTs
                          /\ t.callNow - t.dataTs < cacheDuration
              /\ (~t.hit /\ t.fetchOk) =>
                          /\ t.dataTs = t.doneNow
                          /\ t.key \in DOMAIN cache
                          /\ cache[t.key].timestamp >= t.doneNow

\* an entry exactly cacheDuration old was not served and has been replaced
C9Witness ==
    \E i \in DOMAIN tasks :
        /\ tasks[i].hadEntry
        /\ tasks[i].callNow - tasks[i].entryTs = cacheDuration
        /\ tasks[i].fetchOk
        /\ cache[tasks[i].key].timestamp = tasks[i].doneNow

\* C10: within one reload, whatever subset of its fetches fails, the reload's
\* promise and those of its panel loads never reject, and every panel load
\* whose own data (and, for the map, geometry) arrived has rendered.
C10Reload ==
    \A p \in HscIds :
        /\ tasks[p].res # "rejected"
        /\ \A c \in ChildrenOf(p) :
              /\ tasks[c].res # "rejected"
              /\ (tasks[c].res = "resolved" /\ tasks[c].fetchOk
                    /\ (tasks[c].kind = "loadMap" => tasks[c].geoOk))
                 => tasks[c].rendered
        /\ tasks[p].res = "resolved" =>
              \A c \in ChildrenOf(p) : tasks[c].res = "resolved"

\* a reload has resolved although two of its fetches failed, the panels of the
\* other fetches being rendered
C10Witness ==
    \E p \in HscIds :
        /\ tasks[p].res = "resolved"
        /\ Cardinality({c \in ChildrenOf(p) : ~tasks[c].fetchOk}) >= 2
        /\ \E c \in ChildrenOf(p) : tasks[c].rendered

\* C11: a drillDownToState(r) that nothing overlaps never rejects, whichever of
\* its fetches fail (the district list included), and once resolved it has
\* left currentState = r and currentMapLevel set for r.
C11DrillSurvives ==
    \A p \in HscIds :
        Alone(p) =>
            /\ tasks[p].res # "rejected"
            /\ tasks[p].res = "resolved" =>
                  /\ currentState = tasks[p].arg
                  /\ currentMapLevel =
                        (IF tasks[p].arg = "National" THEN "state" ELSE "district")

\* a drill-down to a state has resolved although its district list failed
C11Witness ==
    \E p \in HscIds :
        /\ Alone(p) /\ tasks[p].res = "resolved" /\ tasks[p].arg = "Maharashtra"
        /\ currentState = "Maharashtra" /\ currentMapLevel = "district"
        /\ \E c \in ChildrenOf(p) :
              tasks[c].kind = "populateDistrictDropdown" /\ ~tasks[c].fetchOk

\* C12: every panel load whose gateway call failed has put a failure notice
\* on the page.
C12Claim ==
    \A t \in DOMAIN tasks :
        (tasks[t].kind \in PanelKinds /\ tasks[t].res # "pending" /\ ~tasks[t].fetchOk)
            => tasks[t].notice

\* the calls a reload has issued, and what one of them requested
ReloadKinds(p) == {tasks[c].kind : c \in ChildrenOf(p)} \ {"populateDistrictDropdown"}
Reloading(p) == tasks[p].pc = "reload" \/ tasks[p].res = "resolved"
Requested(p, kind, url) ==
    \E c \in ChildrenOf(p) : tasks[c].kind = kind /\ tasks[c].key = CacheKey(url, NoOptions)

\* C13 as stated: every reload of a navigation step has issued an alerts fetch
\* along with the map, rankings, trends and operations fetches.
C13Claim ==
    \A p \in HscIds :
        Reloading(p) =>
            ReloadKinds(p) = {"loadMap", "loadRankings", "loadTrends",
                              "loadAlerts", "loadCriticalOps"}

\* C13 amended: every reload of a navigation step (a drill-down, or the one
\* setPersona performs) issues together exactly four fetches: map data,
\* trends, rankings and operations data, and no alerts fetch; when no other
\* call overlaps it each is scoped to the step's region.
C13Amended ==
    \A p \in HscIds :
        LET r == tasks[p].arg
            lvl == IF r = "National" THEN "state" ELSE "district"
        IN  Reloading(p) =>
              /\ ReloadKinds(p) = {"loadMap", "loadRankings", "loadTrends",
                                   "loadCriticalOps"}
              /\ Alone(p) =>
                    /\ Requested(p, "loadMap", MapDataUrl(lvl))
                    /\ Requested(p, "loadTrends", TrendsUrl(r, ""))
                    /\ Requested(p, "loadRankings",
                                 RankingsUrl(lvl, "10", IF r = "National" THEN "" ELSE r))
                    /\ Requested(p, "loadCriticalOps", OperationsUrl(r))

\* the reload of the drill-down a persona switch performs has been issued
C13Witness ==
    \E p \in HscIds :
        /\ tasks[p].pc = "reload" /\ Alone(p)
        /\ tasks[p].parent # 0 /\ tasks[tasks[p].parent].kind = "setPersona"
        /\ Cardinality(ChildrenOf(p)) >= 4

\* C14: a drillDownToState(r) that nothing overlaps ends with currentState = r;
\* for a state r with currentMapLevel 'district', the breadcrumb 'India / r'
\* and rankings requested as getRankings('district', 10, r); for 'National'
\* with currentMapLevel 'state', the breadcrumb 'India' and rankings requested
\* unscoped at level 'state'.
C14Drill ==
    \A p \in HscIds :
        (Alone(p) /\ tasks[p].res = "resolved") =>
            /\ currentState = tasks[p].arg
            /\ tasks[p].arg # "National" =>
                  /\ currentMapLevel = "district"
                  /\ breadcrumb = "India / " \o tasks[p].arg
                  /\ Requested(p, "loadRankings",
                               RankingsUrl("district", "10", tasks[p].arg))
            /\ tasks[p].arg = "National" =>
                  /\ currentMapLevel = "state"
                  /\ breadcrumb = "India"
                  /\ Requested(p, "loadRankings", RankingsUrl("state", "10", ""))

\* a drill-down into Maharashtra, and later one back to National, have ended
C14Witness ==
    \E p \in HscIds :
        /\ Alone(p) /\ tasks[p].res = "resolved"
        /\ tasks[p].cs0 = "Maharashtra" /\ tasks[p].arg = "National"
        /\ currentState = "National" /\ breadcrumb = "India"

\* the setPersona(p) calls made by a persona button (not by loadOverview), and
\* the detached calls one of them has made
PersonaIds(p) ==
    {i \in DOMAIN tasks : /\ tasks[i].kind = "setPersona" /\ tasks[i].arg = p
                          /\ Sib(i, Role.Init) \notin DOMAIN tasks}
Drills(t, r) ==
    \E c \in ChildrenOf(t) : tasks[c].kind = "handleStateChange" /\ tasks[c].arg = r
Detached(t, kind, arg, url) ==
    \E i \in DOMAIN tasks :
        /\ RootOf(i) = RootOf(t) /\ tasks[i].parent = 0
        /\ tasks[i].kind = kind /\ tasks[i].arg = arg
        /\ tasks[i].key = CacheKey(url, NoOptions)
KindsWith(t) == {tasks[i].kind : i \in DOMAIN tasks}

\* C15: setPersona('national') that nothing overlaps: from a state it performs
\* drillDownToState('National') and ends at 'National' / 'state'; from
\* 'National' it only redraws the unfiltered map and changes neither
\* currentState nor currentMapLevel.
C15National ==
    \A t \in PersonaIds("national") :
        Alone(t) =>
            /\ tasks[t].cs0 # "National" =>
                  /\ Drills(t, "National")
                  /\ tasks[t].res = "resolved" =>
                        currentState = "National" /\ currentMapLevel = "state"
            /\ tasks[t].cs0 = "National" =>
                  /\ KindsWith(t) = {"setPersona", "loadMap"}
                  /\ Detached(t, "loadMap", Null, MapDataUrl(tasks[t].lvl0))
                  /\ currentState = "National"
                  /\ currentMapLevel = tasks[t].lvl0

\* the national persona was chosen in Maharashtra and the page is back at National
C15Witness ==
    \E t \in PersonaIds("national") :
        /\ Alone(t) /\ tasks[t].cs0 = "Maharashtra" /\ tasks[t].res = "resolved"
        /\ currentState = "National" /\ currentMapLevel = "state"

\* C16: setPersona('state') that nothing overlaps: from 'National' it performs
\* drillDownToState('Maharashtra'); from a state it only redraws the map
\* filtered to that state and changes neither currentState nor currentMapLevel.
C16State ==
    \A t \in PersonaIds("state") :
        Alone(t) =>
            /\ tasks[t].cs0 = "National" => Drills(t, "Maharashtra")
            /\ tasks[t].cs0 # "National" =>
                  /\ KindsWith(t) = {"setPersona", "loadMap"}
                  /\ Detached(t, "loadMap", tasks[t].cs0, MapDataUrl("district"))
                  /\ currentState = tasks[t].cs0
                  /\ currentMapLevel = tasks[t].lvl0

\* the state persona was chosen in Maharashtra and its map has been redrawn
C16Witness ==
    \E t \in PersonaIds("state") :
        /\ Alone(t) /\ tasks[t].cs0 = "Maharashtra" /\ Idle
        /\ panels.map.region = "Maharashtra" /\ currentState = "Maharashtra"

\* C17: setPersona('ops') that nothing overlaps leaves currentState and
\* currentMapLevel as they were, sets the trend metric to 'updates' and
\* issues a trends load and an operations load for the current state, and
\* nothing else.
C17Ops ==
    \A t \in PersonaIds("ops") :
        Alone(t) =>
            /\ currentState = tasks[t].cs0
            /\ currentMapLevel = tasks[t].lvl0
            /\ trendMetric = "updates"
            /\ KindsWith(t) = {"setPersona", "loadTrends", "loadCriticalOps"}
            /\ Detached(t, "loadTrends", tasks[t].cs0, TrendsUrl(tasks[t].cs0, ""))
            /\ Detached(t, "loadCriticalOps", tasks[t].cs0, OperationsUrl(tasks[t].cs0))

\* the ops persona was chosen in Maharashtra and both panels have been redrawn
C17Witness ==
    \E t \in PersonaIds("ops") :
        /\ Alone(t) /\ tasks[t].cs0 = "Maharashtra" /\ Idle
        /\ panels.ops.region = "Maharashtra" /\ panels.trends.region = "Maharashtra"
        /\ trendMetric = "updates"

\* C18: once every request but one that hangs has been answered, the controls
\* of the page are bound, so that later user actions are handled; the hung
\* request may be one of the startup sequence.
C18Claim ==
    (net = {} /\ \E i \in DOMAIN tasks : tasks[i].hung) => listeners >= 1

\* the reload of p has been issued and at least one of its loads is pending
ReloadPending(p) ==
    /\ tasks[p].pc = "reload"
    /\ \E c \in ChildrenOf(p) : tasks[c].res = "pending"

\* C19 as stated: while the panel loads of a navigation step are pending the
\* breadcrumb still reads what it read before the step.
C19Claim ==
    \A p \in HscIds :
        (Alone(p) /\ ReloadPending(p)) => breadcrumb = tasks[p].bc0

\* C19 amended: the breadcrumb is rewritten for the new region before the
\* panel loads of the step are issued: it reads the old text while the
\* district list is awaited and the new text while the loads are pending.
C19Amended ==
    \A p \in HscIds :
        Alone(p) =>
            /\ tasks[p].pc = "populate" => breadcrumb = tasks[p].bc0
            /\ ReloadPending(p) =>
                  breadcrumb = (IF tasks[p].arg = "National" THEN "India"
                                ELSE "India / " \o tasks[p].arg)

\* the loads of a drill-down are pending and the breadcrumb has changed already
C19Witness ==
    \E p \in HscIds :
        /\ Alone(p) /\ ReloadPending(p)
        /\ breadcrumb # tasks[p].bc0

\* C20: when the detail card of a district chosen in the search list is shown,
\* the reload of the accompanying drillDownToState has settled.
C20Claim ==
    \A t \in DOMAIN tasks :
        (tasks[t].kind = "detailCard" /\ tasks[t].rendered) => tasks[t].busy = {}

\* C21: for a query typed into the untouched search box, once the page is
\* idle: a query of length 1 has produced no suggestion list, and a query of
\* length 2 or more that matches no state and no district has produced a list
\* with the 'No results found' entry.
C21Claim ==
    (Idle /\ nEvents = 1)
        => /\ Len(mapSearch) = 1 => ~suggestions.shown
           /\ (/\ Len(mapSearch) >= 2
               /\ StatesWith(mapSearch) = <<>>
               /\ DistrictsWith(mapSearch) = <<>>)
                  => suggestions.shown /\ suggestions.none

\* C22: whenever the query in the search box is shorter than 2 characters, no
\* suggestion list is displayed.
C22Claim == Len(mapSearch) < 2 => ~suggestions.shown

\* C23: a record appears in the suggestions only if its own name contains the
\* query of the list as a case-insensitive substring: the state name of every
\* state suggestion, the district name of every district suggestion.
C23Claim ==
    suggestions.shown =>
        /\ \A i \in DOMAIN suggestions.states :
              NameHas(suggestions.states[i].state, suggestions.query)
        /\ \A i \in DOMAIN suggestions.districts :
              NameHas(suggestions.districts[i].district, suggestions.query)

\* C23, as the code has it: every state suggestion's state name contains the
\* query, and every district suggestion's district name or the name of its
\* state contains the query (case-insensitive substring).
C23Amended ==
    suggestions.shown =>
        /\ \A i \in DOMAIN suggestions.states :
              NameHas(suggestions.states[i].state, suggestions.query)
        /\ \A i \in DOMAIN suggestions.districts :
              \/ NameHas(suggestions.districts[i].district, suggestions.query)
              \/ NameHas(suggestions.districts[i].state, suggestions.query)

\* a list with state suggestions and with a district suggestion that is
\* there for the name of its state only
C23Witness ==
    /\ suggestions.shown
    /\ suggestions.states # <<>>
    /\ \E i \in DOMAIN suggestions.districts :
          /\ ~NameHas(suggestions.districts[i].district, suggestions.query)
          /\ NameHas(suggestions.districts[i].state, suggestions.query)

\* C24: the suggestion list shows at most 5 states and at most 8 districts,
\* and they are the first matching records in the order of the state and
\* district datasets: a prefix of the filtered dataset.
C24Prefix ==
    suggestions.shown =>
        /\ Len(suggestions.states) <= 5
        /\ Len(suggestions.districts) <= 8
        /\ suggestions.states =
              SubSeq(StatesWith(suggestions.query), 1, Len(suggestions.states))
        /\ suggestions.districts =
              SubSeq(DistrictsWith(suggestions.query), 1, Len(suggestions.districts))

\* a list for a query that more than 5 states and more than 8 districts match
C24Witness ==
    /\ suggestions.shown
    /\ Len(suggestions.states) = 5
    /\ Len(StatesWith(suggestions.query)) > 5
    /\ Len(suggestions.districts) = 8
    /\ Len(DistrictsWith(suggestions.query)) > 8

\* C25: currentState and currentMapLevel are written only by
\* handleStateChange: a step in which currentState changes starts a
\* handleStateChange call with that state as its argument, a step in which
\* currentMapLevel changes takes a handleStateChange call past its populate
\* await to the level of its argument; a search, a panel load resumed by its
\* response and a cache operation leave both fields as they were.
C25Frame ==
    [][/\ currentState' # currentState =>
            \E i \in DOMAIN tasks' :
                /\ tasks'[i].kind = "handleStateChange"
                /\ i \notin DOMAIN tasks
                /\ currentState' = tasks'[i].arg
       /\ currentMapLevel' # currentMapLevel =>
            \E i \in DOMAIN tasks' :
                /\ tasks'[i].kind = "handleStateChange"
                /\ tasks'[i].pc \in {"reload", "done"}
                /\ i \in DOMAIN tasks => tasks[i].pc = "populate"
                /\ currentMapLevel' = LevelFor(tasks'[i].arg)]_vars

\* a search has shown its list on the national page and nothing else has run
C25Witness ==
    /\ suggestions.shown
    /\ currentState = "National"
    /\ currentMapLevel = "state"
    /\ \E i \in DOMAIN tasks : tasks[i].kind = "performMapSearch" /\ tasks[i].rendered
    /\ \A i \in DOMAIN tasks : tasks[i].kind = "performMapSearch"

\* C26: renderers replace rather than accumulate: once every render of the
\* alert feed and every typeWriter timer has run, the message element holds
\* exactly the message a single render types, also when a second render
\* started while the timers of the first were still running.
C26Claim ==
    (Idle /\ panels.alerts.shown /\ panels.alerts.content = "data")
        => alertMsg = server.alertText

\* C27: when the fetch of the rankings, trends, alerts or map panel succeeds
\* with zero records, the panel shows an explicit no-data placeholder.
C27Claim ==
    \A p \in ZeroPanels :
        (panels[p].shown /\ p \in server.empty) => panels[p].content = "placeholder"

\* C28: if both the local and the remote geometry source fail, loadMap does
\* not reject to its caller and the map panel ends in a degraded render: the
\* call has drawn the map (without boundaries).
C28Claim ==
    \A i \in DOMAIN tasks :
        (/\ tasks[i].kind = "loadMap"
         /\ tasks[i].res # "pending"
         /\ tasks[i].geoLocal = "failed"
         /\ tasks[i].geoRemote = "failed"
         /\ tasks[i].stored = "-")
            => tasks[i].res = "resolved" /\ tasks[i].rendered

\* C29: on the first geometry load for a granularity the remote source is
\* contacted exactly when the local attempt failed; the geometry load fails
\* only if both attempts failed; and the bundle a call stores comes from a
\* source that succeeded.
C29Claim ==
    \A i \in DOMAIN tasks :
        (tasks[i].kind = "loadMap" /\ tasks[i].geoLocal # "-")
            => /\ tasks[i].geoRemote # "-" <=> tasks[i].geoLocal = "failed"
               /\ (tasks[i].res # "pending" /\ ~tasks[i].geoOk)
                      => tasks[i].geoLocal = "failed" /\ tasks[i].geoRemote = "failed"
               /\ tasks[i].stored = "local" => tasks[i].geoLocal = "ok"
               /\ tasks[i].stored = "remote" => tasks[i].geoRemote = "ok"

\* C30: the cache key is a deterministic, injective encoding of (endpoint,
\* query parameters, method, body): two gateway calls have the same key
\* exactly when they make the same request, and a call finds a cache entry
\* only if an earlier call with the same request has stored it.
C30Key ==
    \A i, j \in KeyCallIds :
        /\ tasks[i].key = tasks[j].key
              <=> RequestOf(tasks[i].call) = RequestOf(tasks[j].call)
        /\ tasks[j].hit <=> tasks[j].hadEntry
        /\ tasks[j].hadEntry =>
              \E k \in KeyCallIds :
                  /\ k < j
                  /\ tasks[k].fetchOk
                  /\ RequestOf(tasks[k].call) = RequestOf(tasks[j].call)

\* two getTrends calls that differ only in how the same characters are split
\* between state and district (the state of one is 'Goa&district=Bihar'):
\* each has sent its own request and the cache holds an entry for each
C30Witness ==
    \E i, j \in KeyCallIds :
        /\ tasks[i].call.m = "getTrends" /\ tasks[j].call.m = "getTrends"
        /\ Len(tasks[i].call.state) > 1 /\ tasks[i].call.district = <<>>
        /\ tasks[j].call.state = <<"Goa">> /\ tasks[j].call.district = <<"Bihar">>
        /\ tasks[i].fetchOk /\ tasks[j].fetchOk
        /\ tasks[i].sent /\ tasks[j].sent
        /\ Cardinality(DOMAIN cache) = 2

\* the chat messages whose reply has been shown, and what the action of a
\* reply has to start
ChatIds ==
    {i \in DOMAIN tasks : /\ tasks[i].kind \in {"sendChatMessage", "handleChat"}
                          /\ tasks[i].rendered}
Executed(i, action) ==
    \E j \in tasks[i].started :
        IF action = "report" THEN tasks[j].kind = "openBriefing"
        ELSE tasks[j].kind = "setPersona" /\ tasks[j].arg = action

\* C31: when the reply to a message sent from the chat box carries an action,
\* the dashboard has executed it once the reply is shown: 'state' and
\* 'national' have called setPersona with that persona, 'report' has opened
\* the briefing.
C31Claim ==
    \A i \in ChatIds :
        ChatAction(tasks[i].query) # "" => Executed(i, ChatAction(tasks[i].query))

\* C32: whenever no navigation operation is in progress, the breadcrumb names
\* currentState: 'India' for 'National', 'India / r' for the state r, also
\* after overlapping drill-downs whose district lists arrive in either order.
C32Claim == NavIdle => breadcrumb = BreadcrumbFor(currentState)

\* C33: every rankings request is well-formed: getRankings is called with
\* level 'state' and no state parameter, or with level 'district' and a
\* state parameter, also when the ranking-type selector calls loadRankings
\* while a drill-down is suspended.
C33Claim ==
    \A i \in DOMAIN tasks :
        tasks[i].kind = "loadRankings" =>
            \/ tasks[i].key = CacheKey(RankingsUrl("state", "10", ""), NoOptions)
            \/ \E r \in Regions \ {"National"} :
                  tasks[i].key = CacheKey(RankingsUrl("district", "10", r), NoOptions)

\* C34: at any time at most one auto-refresh interval timer is registered,
\* however many refreshes (each of which runs init again) have completed.
C34Claim == timers <= 1

\* C35: after any number of refreshes one user event on a control (a click on
\* a persona button, a change of the state filter, a click on the refresh
\* button) runs its handler exactly once: the step of the event makes exactly
\* one top-level setPersona, drillDownToState or refreshDashboard call.
C35Claim == [][nEvents' = nEvents + 1 => nRoots' = nRoots + 1]_vars

\* C36: every trends request made while currentState is 'National' carries
\* no district filter: after any sequence of drill-downs and district
\* selections getTrends is never called with state 'National' and a district.
C36Claim ==
    \A i \in DOMAIN tasks :
        (tasks[i].kind = "loadTrends" /\ tasks[i].arg = "National")
            => tasks[i].key = CacheKey(TrendsUrl("National", ""), NoOptions)

\* C37: a click on the map changes the navigation state only when the map
\* clicked was rendered at state level, and then it calls drillDownToState
\* with the region clicked; a click on a map rendered at district level shows
\* the detail card, starts no navigation and leaves currentState and
\* currentMapLevel as they were.
C37Frame ==
    [][\A i \in DOMAIN tasks' \ DOMAIN tasks :
          tasks'[i].kind = "mapClick" =>
              IF tasks'[i].level = "state"
              THEN /\ Sib(i, Role.Hsc) \in DOMAIN tasks'
                   /\ tasks'[Sib(i, Role.Hsc)].kind = "handleStateChange"
                   /\ tasks'[Sib(i, Role.Hsc)].arg = tasks'[i].arg
                   /\ currentState' = tasks'[i].arg
              ELSE /\ currentState' = currentState
                   /\ currentMapLevel' = currentMapLevel
                   /\ card' = tasks'[i].arg
                   /\ \A j \in DOMAIN tasks' \ DOMAIN tasks : j = i]_vars

\* a district of the district-level map has been clicked while the loads of
\* the drill-down that drew it were pending: the card is shown and the
\* navigation state is as it was
C37Witness ==
    \E i \in DOMAIN tasks :
        /\ tasks[i].kind = "mapClick" /\ tasks[i].level = "district"
        /\ card = tasks[i].arg
        /\ currentState = tasks[i].cs0 /\ currentMapLevel = tasks[i].lvl0
        /\ \E j \in DOMAIN tasks : tasks[j].kind = "mapClick" /\ tasks[j].level = "state"

\* C38: a fetchAPI call whose network request is rejected or answered with a
\* non-success status leaves the cache exactly as it was (no entry added,
\* replaced or removed) and rejects to its caller; a later call with the same
\* key, the cache holding no fresh entry for it, sends a new network request.
C38Frame ==
    [][/\ \A r \in net \ net' :
              (r.kind = "api" /\ nFail' = nFail + 1) =>
                  /\ cache' = cache
                  /\ \A w \in r.waiters : tasks'[w].res = "rejected"
       /\ \A j \in DOMAIN tasks' \ DOMAIN tasks :
              (/\ \E i \in DOMAIN tasks :
                      tasks[i].res = "rejected" /\ tasks[i].key = tasks'[j].key
               /\ ~FreshAtCall(tasks'[j]))
                  => /\ tasks'[j].sent
                     /\ \E r \in net' \ net : r.kind = "api" /\ r.key = tasks'[j].key]_vars

\* a call has failed; a later call with the same key has sent its own request
\* and stored its answer
C38Witness ==
    \E i, j \in DOMAIN tasks :
        /\ tasks[i].kind = "call" /\ tasks[i].res = "rejected"
        /\ j > i /\ tasks[j].key = tasks[i].key
        /\ tasks[j].callNow >= tasks[i].doneNow
        /\ ~tasks[j].hadEntry
        /\ tasks[j].sent /\ tasks[j].fetchOk
        /\ cache[tasks[j].key].timestamp = tasks[j].doneNow

====
